---- MODULE Spec2Model ----
(***************************************************************************)
(* Model of PySAGA_cmd/saga.py: the Program / Library / Tool targets, the *)
(* Flag, the Parameters mapping with its temp-file substitution, the      *)
(* Command token list, and the execution of tools and pipelines as child  *)
(* processes whose stdout / stderr are read through pipes.                *)
(*                                                                         *)
(* Python strings are sequences of one-character strings, so that         *)
(* str.startswith, str.upper, str.strip, Path.stem and Path.suffix are    *)
(* computed and not assumed.                                               *)
(***************************************************************************)
EXTENDS Naturals, Sequences, FiniteSets, Bags, TLC

(***************************************************************************)
(* Bounds of the model.                                                    *)
(***************************************************************************)

MaxFiles == 2
MaxClock == 1
MaxDirs == 2
MaxFlagOps == 2
MaxCalls == 2
MaxWrites == 2
PipeCap == 1
MaxRuns == 2
MaxPipes == 2
MaxPipeLen == 3
MaxListing == 3
MaxSpawns == 2

(***************************************************************************)
(* Strings.                                                                *)
(***************************************************************************)
Digit(n) ==
    CASE n = 0 -> "0" [] n = 1 -> "1" [] n = 2 -> "2" [] n = 3 -> "3"
      [] n = 4 -> "4" [] n = 5 -> "5" [] n = 6 -> "6" [] n = 7 -> "7"
      [] n = 8 -> "8" [] OTHER -> "9"

\* str(n) for a small non-negative int
IntStr(n) == IF n < 10 THEN <<Digit(n)>> ELSE <<Digit(n \div 10), Digit(n % 10)>>

UpperChar(c) ==
    CASE c = "d" -> "D" [] c = "s" -> "S" [] c = "e" -> "E" [] c = "t" -> "T"
      [] c = "m" -> "M" [] c = "p" -> "P" [] c = "o" -> "O" [] c = "a" -> "A"
      [] c = "h" -> "H" [] c = "f" -> "F" [] c = "n" -> "N" [] c = "c" -> "C"
      [] c = "l" -> "L" [] c = "g" -> "G"
      [] OTHER -> c

\* str.upper
Upper(s) == [i \in 1..Len(s) |-> UpperChar(s[i])]

\* str.startswith
StartsWith(s, pre) ==
    /\ Len(s) >= Len(pre)
    /\ \A i \in 1..Len(pre) : s[i] = pre[i]

\* str.rfind(c) as a 1-based index, 0 when c does not occur
RFind(s, c) ==
    IF \E i \in 1..Len(s) : s[i] = c
    THEN CHOOSE i \in 1..Len(s) : s[i] = c /\ \A j \in (i+1)..Len(s) : s[j] # c
    ELSE 0

NoneStr == <<"N", "o", "n", "e">>
TempStem == <<"t", "e", "m", "p">>
ShpSuffix == <<".", "s", "h", "p">>
SdatSuffix == <<".", "s", "d", "a", "t">>

(***************************************************************************)
(* pathlib.PurePath on a POSIX path string.                                *)
(***************************************************************************)
\* Path(s).name : the text after the last "/"
PathName(s) == SubSeq(s, RFind(s, "/") + 1, Len(s))

\* Path(s).parent as a string ("." when s has no "/")
PathParent(s) ==
    IF RFind(s, "/") = 0 THEN <<".">> ELSE SubSeq(s, 1, RFind(s, "/") - 1)

\* the dot that starts the suffix: 0 < i < len(name) - 1 in 0-based terms
SuffixDot(name) ==
    LET i == RFind(name, ".")
    IN  IF i > 1 /\ i < Len(name) THEN i ELSE 0

PathSuffix(s) ==
    LET name == PathName(s)
    IN  IF SuffixDot(name) = 0 THEN <<>>
        ELSE SubSeq(name, SuffixDot(name), Len(name))

PathStem(s) ==
    LET name == PathName(s)
    IN  IF SuffixDot(name) = 0 THEN name
        ELSE SubSeq(name, 1, SuffixDot(name) - 1)

\* str(Path(s).with_suffix(suffix))
WithSuffix(s, suffix) ==
    SubSeq(s, 1, Len(s) - Len(PathSuffix(s))) \o suffix

\* str(dir / name)
PathJoin(dir, name) == dir \o <<"/">> \o name

(***************************************************************************)
(* Flag                                                                    *)
(***************************************************************************)
\* Flag() : flag is None
NoFlag == [isset |-> FALSE, flag |-> <<>>]

\* Flag(flag) for a string
MkFlag(s) == [isset |-> TRUE, flag |-> s]

\* Flag.__str__
FlagStr_AlwaysPrefixed(f) == IF ~f.isset THEN <<>> ELSE <<"-", "-">> \o f.flag

FlagStr(f) ==
    IF ~f.isset THEN <<>>
    ELSE IF ~StartsWith(f.flag, <<"-", "-">>) THEN <<"-", "-">> \o f.flag
    ELSE f.flag

\* Flag.__bool__
FlagBool(f) == f.isset

\* Flag.__eq__ : str(self) == other
FlagEq(f, other) == FlagStr(f) = other

(***************************************************************************)
(* Command                                                                 *)
(***************************************************************************)
\* One positional argument of Command(*args): its truth value and its str().
\* A SAGACMD and a Library are dataclass instances without __bool__ or
\* __len__, hence always true; a str is true when non-empty; a Flag is true
\* when its flag is not None.
ArgSagaCmd(path) == [truthy |-> TRUE, str |-> path]
ArgFlag(f) == [truthy |-> FlagBool(f), str |-> FlagStr(f)]
ArgLibrary(lib) == [truthy |-> TRUE, str |-> lib.library]
ArgStr(s) == [truthy |-> Len(s) > 0, str |-> s]

KeepArg(a) == a.truthy

\* Command.__init__ : self.args = [str(arg) for arg in args if arg]
CommandInit(args) ==
    LET kept == SelectSeq(args, KeepArg)
    IN  [i \in 1..Len(kept) |-> kept[i].str]

(***************************************************************************)
(* Parameters                                                              *)
(***************************************************************************)
\* one token of Parameters.formatted : f'-{param.upper()}={value}'
FormatParam_NoUpper(e) == <<"-">> \o e.param \o <<"=">> \o e.value

FormatParam(e) == <<"-">> \o Upper(e.param) \o <<"=">> \o e.value

\* Parameters.formatted
Formatted(parameters) == [i \in 1..Len(parameters) |-> FormatParam(parameters[i])]

\* UserDict.__setitem__ : a new key goes last, an existing key keeps its place
DictSet(parameters, param, value) ==
    IF \E i \in 1..Len(parameters) : parameters[i].param = param
    THEN [i \in 1..Len(parameters) |->
            IF parameters[i].param = param
            THEN [param |-> param, value |-> value]
            ELSE parameters[i]]
    ELSE Append(parameters, [param |-> param, value |-> value])

\* str(value) of a keyword-argument value
StrOf(v) ==
    CASE v.k = "str" -> v.s
      [] v.k = "int" -> IntStr(v.n)
      [] OTHER -> NoneStr

VStr(s) == [k |-> "str", s |-> s, n |-> 0]
VInt(n) == [k |-> "int", s |-> <<>>, n |-> n]
VNone == [k |-> "none", s |-> <<>>, n |-> 0]

(***************************************************************************)
(* Inputs                                                                  *)
(***************************************************************************)
ToolIds == {1, 2}

ProgramPath == <<"/", "x">>

ParamNames == {<<"d">>, <<"s">>}

LibraryNames == {<<>>, <<"l">>}
ToolNames == {<<>>, <<"0">>}

\* flag values given to the setter: '', 'c', '--c'
FlagInputs == {<<>>, <<"c">>, <<"-", "-", "c">>}

TempSdat == <<"t", "e", "m", "p", ".", "s", "d", "a", "t">>
DemTif == <<"a", ".", "t", "i", "f">>

\* files a user may have in the working directory
UserFiles == {TempStem, TempSdat}

(***************************************************************************)
(* State                                                                   *)
(***************************************************************************)
VARIABLES
    sagaFlag,   \* SAGA._flag
    libs,       \* Library objects: made, library, flag
    tools,      \* Tool objects: made, tool, flag, parameters, attrs
    clock,      \* time.time() in whole seconds
    tempDir,    \* SAGA._temp_dir, the number of the mkdtemp directory
    dirs,       \* the mkdtemp directories that exist
    dirCount,   \* how many mkdtemp directories were made
    fs,         \* the regular files that exist
    subs,       \* history: the bag of the paths generated for 'temp' values
    last,       \* history: the most recent run of Parameters.__setitem__
    flagOps,    \* number of flag sets and deletes so far
    flagLast,   \* history: the most recent flag set or delete
    calls,      \* number of parameterizations so far
    pipes,      \* Pipeline objects: tools, and what each position held when put in
    pipeRet,    \* history: the most recent | operation and what it returned
    cleaned,    \* the files that the last temp_dir_cleanup listed and removed
    saga2,      \* a second SAGA object and one Tool of it
    util,       \* the most recent call of a function of utils.py
    version,    \* SAGA.version
    rasterFormats,  \* SAGA._raster_formats
    vectorFormats,  \* SAGA._vector_formats
    exe,        \* the frame of Pipeline.execute: where it is, its arguments
    procs,      \* the child process of each stage, with its two pipes
    cur,        \* the Output under construction: what was read so far
    outs,       \* the list outputs of Pipeline.execute
    err,        \* the ExecutionError that left Pipeline.execute
    console,    \* what dynamic_print printed
    history     \* history: the finished invocations of earlier runs

objVars == <<sagaFlag, libs, tools, clock, tempDir, dirs, dirCount, fs, subs,
             last, flagOps, flagLast, calls, pipes, pipeRet, cleaned, saga2, util>>

execVars == <<version, rasterFormats, vectorFormats, exe, procs, cur, outs,
              err, console, history>>

pipeVars == <<pipes, pipeRet>>

otherVars == <<cleaned, saga2, util>>

vars == <<objVars, execVars>>

NoAttr == [has |-> FALSE, v |-> <<>>]

NoLibrary == [made |-> FALSE, library |-> <<>>, flag |-> NoFlag]

NoTool ==
    [made |-> FALSE, tool |-> <<>>, flag |-> NoFlag, parameters |-> <<>>,
     attrs |-> [p \in ParamNames |-> NoAttr]]

\* tempfile.mkdtemp() : a fresh directory, named after its number
DirPath(d) == <<"/", "t", Digit(d)>>

\* Path.exists
Exists(value) == value \in fs \/ \E d \in dirs : value = DirPath(d)

(***************************************************************************)
(* utils.infer_file_extension                                              *)
(***************************************************************************)
FilesFiltered(value) ==
    {f \in fs : PathParent(f) = PathParent(value) /\ PathStem(f) = PathStem(value)}

\* The suffixes infer_file_extension may pick.  In the last branch the files
\* are sorted by sys.getsizeof of their Path objects, which is the same for
\* every Path, so the pick is the last file of the directory listing: any
\* file of files_filtered.
InferSuffixes(value) ==
    LET filtered == FilesFiltered(value)
        has_shp == \E f \in filtered : PathSuffix(f) = ShpSuffix
        has_sdat == \E f \in filtered : PathSuffix(f) = SdatSuffix
    IN  IF filtered = {} THEN {<<>>}
        ELSE IF has_shp /\ ~has_sdat THEN {ShpSuffix}
        ELSE IF ~has_shp /\ has_sdat THEN {SdatSuffix}
        ELSE {PathSuffix(f) : f \in filtered}

(***************************************************************************)
(* Parameters.__setitem__                                                  *)
(***************************************************************************)
IsTempPlaceholder_AnyMissing(value) == ~Exists(value)

IsTempPlaceholder(value) == PathStem(value) = TempStem /\ ~Exists(value)

NeedsInference(value) ==
    ~IsTempPlaceholder(value) /\ Exists(value) /\ PathSuffix(value) = <<>>

\* the name of a generated temp file: f'{param}_{unix}{suffix}'
TempName_NoSuffix(param, unix, suffix) == param \o <<"_">> \o IntStr(unix)

TempName(param, unix, suffix) == param \o <<"_">> \o IntStr(unix) \o suffix

\* The value __setitem__ stores for str(value) = value, with the temp
\* directory tdir, the time unix and the inferred suffix inferred.
SetItemValue(param, value, tdir, unix, inferred) ==
    IF IsTempPlaceholder(value)
    THEN PathJoin(DirPath(tdir), TempName(param, unix, PathSuffix(value)))
    ELSE IF NeedsInference(value)
    THEN WithSuffix(value, inferred)
    ELSE value

\* temp_dir() : Path(tempfile.mkdtemp()), a directory that did not exist
Mkdtemp_Cached == IF dirCount = 0 THEN dirCount + 1 ELSE tempDir

Mkdtemp == dirCount + 1

\* SAGA.temp_dir of a SAGA object whose _temp_dir is td
TempDirOf(td) == IF td \in dirs THEN td ELSE Mkdtemp

\* SAGA.temp_dir : the directory after the property was read
TempDirRead == TempDirOf(tempDir)

\* the number of directories that this SAGA object made so far
DirsMade == Cardinality((1..dirCount) \ saga2.owned)

(***************************************************************************)
(* Initial state: SAGA.__post_init__ has run; get_saga_version has set    *)
(* and deleted the 'version' flag again.                                   *)
(***************************************************************************)
\* no second SAGA object yet; owned is the set of the temp directories that
\* it made, parameters the ParameterSet of its tool, subs the paths that were
\* generated for its 'temp' values
NoSaga2 ==
    [made |-> FALSE, tempDir |-> 0, owned |-> {}, parameters |-> <<>>,
     subs |-> {}]

\* no function of utils.py was called yet
NoUtil ==
    [fn |-> "none", listing |-> <<>>, stat |-> "", result |-> <<>>, raised |-> ""]

\* no | operation yet
NoPipeRet == [op |-> "none", ret |-> 0, left |-> 0, tool |-> 0, before |-> <<>>]

\* no flag was set or deleted yet
NoFlagLast ==
    [op |-> "none", target |-> <<"saga", 0>>, given |-> VNone, wasSet |-> FALSE,
     raised |-> FALSE]

NoLast ==
    [t |-> 0, op |-> "none", before |-> <<>>, items |-> <<>>, tdir |-> 0,
     tdirExists |-> FALSE, unix |-> 0]

ObjInit ==
    /\ sagaFlag = NoFlag
    /\ libs = [l \in ToolIds |-> NoLibrary]
    /\ tools = [t \in ToolIds |-> NoTool]
    /\ clock = 0
    /\ tempDir = 1
    /\ dirs = {1}
    /\ dirCount = 1
    /\ fs = {}
    /\ subs = EmptyBag
    /\ last = NoLast
    /\ flagOps = 0
    /\ flagLast = NoFlagLast
    /\ pipes = <<>>
    /\ pipeRet = NoPipeRet
    /\ cleaned = {}
    /\ saga2 = NoSaga2
    /\ util = NoUtil
    /\ calls = 0

(***************************************************************************)
(* SAGAExecutable.flag                                                     *)
(***************************************************************************)
Targets ==
    {<<"saga", 0>>} \cup {<<"library", l>> : l \in ToolIds}
                   \cup {<<"tool", t>> : t \in ToolIds}

TargetMade(target) ==
    CASE target[1] = "saga" -> TRUE
      [] target[1] = "library" -> libs[target[2]].made
      [] OTHER -> tools[target[2]].made

TargetFlag(target) ==
    CASE target[1] = "saga" -> sagaFlag
      [] target[1] = "library" -> libs[target[2]].flag
      [] OTHER -> tools[target[2]].flag

\* self._flag = f, with the flag object shared by the children of the target
AssignFlag_Shared(target, f) ==
    /\ sagaFlag' = IF target[1] = "saga" THEN f ELSE sagaFlag
    /\ libs' = IF target[1] = "library"
               THEN [libs EXCEPT ![target[2]].flag = f]
               ELSE IF target[1] = "saga"
               THEN [l \in ToolIds |->
                        IF libs[l].made THEN [libs[l] EXCEPT !.flag = f] ELSE libs[l]]
               ELSE libs
    /\ tools' = IF target[1] = "tool"
                THEN [tools EXCEPT ![target[2]].flag = f] ELSE tools

\* self._flag = f : the attribute is bound to a new Flag object
AssignFlag(target, f) ==
    /\ sagaFlag' = IF target[1] = "saga" THEN f ELSE sagaFlag
    /\ libs' = IF target[1] = "library"
               THEN [libs EXCEPT ![target[2]].flag = f] ELSE libs
    /\ tools' = IF target[1] = "tool"
                THEN [tools EXCEPT ![target[2]].flag = f] ELSE tools

\* flag.setter : None stays None, anything else goes through str()
FlagSetterValue(v) == IF v.k = "none" THEN NoFlag ELSE MkFlag(StrOf(v))

FlagSet(target, v) ==
    /\ TargetMade(target)
    /\ flagOps < MaxFlagOps
    /\ AssignFlag(target, FlagSetterValue(v))
    /\ flagOps' = flagOps + 1
    /\ flagLast' = [op |-> "set", target |-> target, given |-> v,
                    wasSet |-> FlagBool(TargetFlag(target)), raised |-> FALSE]
    /\ UNCHANGED execVars
    /\ UNCHANGED pipeVars
    /\ UNCHANGED otherVars
    /\ UNCHANGED <<clock, tempDir, dirs, dirCount, fs, subs, last, calls>>

\* flag.deleter : self._flag = Flag(), whatever the flag was; nothing is raised
FlagDelete(target) ==
    /\ TargetMade(target)
    /\ flagOps < MaxFlagOps
    /\ AssignFlag(target, NoFlag)
    /\ flagOps' = flagOps + 1
    /\ flagLast' = [op |-> "delete", target |-> target, given |-> VNone,
                    wasSet |-> FlagBool(TargetFlag(target)), raised |-> FALSE]
    /\ UNCHANGED execVars
    /\ UNCHANGED pipeVars
    /\ UNCHANGED otherVars
    /\ UNCHANGED <<clock, tempDir, dirs, dirCount, fs, subs, last, calls>>

(***************************************************************************)
(* Construction of the targets                                             *)
(***************************************************************************)
\* SAGA.get_library / Library.__post_init__ : self._flag = self.saga.flag
NewLibrary(name) == [made |-> TRUE, library |-> name, flag |-> sagaFlag]

\* Tool(library=lib, tool=name) : Tool.__post_init__ takes the library's flag
NewTool(lib, name) ==
    [NoTool EXCEPT !.made = TRUE, !.tool = name, !.flag = lib.flag]

\* SAGA.get_library, kept as library l
GetLibrary(l, name) ==
    /\ ~libs[l].made
    /\ libs' = [libs EXCEPT ![l] = NewLibrary(name)]
    /\ UNCHANGED execVars
    /\ UNCHANGED pipeVars
    /\ UNCHANGED otherVars
    /\ UNCHANGED flagLast
    /\ UNCHANGED <<sagaFlag, tools, clock, tempDir, dirs, dirCount, fs, subs,
                   last, flagOps, calls>>

\* Library.get_tool / Tool.__post_init__ : self._flag = self.library.flag,
\* self.parameters = Parameters(self)
GetTool(t, name) ==
    /\ libs[t].made
    /\ ~tools[t].made
    /\ tools' = [tools EXCEPT ![t] = NewTool(libs[t], name)]
    /\ UNCHANGED execVars
    /\ UNCHANGED pipeVars
    /\ UNCHANGED otherVars
    /\ UNCHANGED flagLast
    /\ UNCHANGED <<sagaFlag, libs, clock, tempDir, dirs, dirCount, fs, subs,
                   last, flagOps, calls>>

(***************************************************************************)
(* The command properties                                                  *)
(***************************************************************************)
\* SAGA.command
SagaCommand == CommandInit(<<ArgSagaCmd(ProgramPath), ArgFlag(sagaFlag)>>)

\* Library.command : the library name is passed as a str
CommandOfLibrary(lib) ==
    CommandInit(<<ArgSagaCmd(ProgramPath), ArgFlag(lib.flag), ArgStr(lib.library)>>)

\* Library.command of library l
LibraryCommand_ParentFlag(l) ==
    CommandInit(<<ArgSagaCmd(ProgramPath), ArgFlag(sagaFlag),
                  ArgStr(libs[l].library)>>)

LibraryCommand(l) == CommandOfLibrary(libs[l])

\* Tool.command : the Library object itself is passed, then the tool name
CommandOfTool(lib, tool) ==
    CommandInit(<<ArgSagaCmd(ProgramPath), ArgFlag(tool.flag),
                  ArgLibrary(lib), ArgStr(tool.tool)>>
                \o [i \in 1..Len(tool.parameters) |->
                        ArgStr(Formatted(tool.parameters)[i])])

\* Tool.command of tool t, which belongs to library t
ToolCommand_FlagAfterLibrary(t) ==
    CommandInit(<<ArgSagaCmd(ProgramPath), ArgLibrary(libs[t]),
                  ArgFlag(tools[t].flag), ArgStr(tools[t].tool)>>
                \o [i \in 1..Len(tools[t].parameters) |->
                        ArgStr(Formatted(tools[t].parameters)[i])])

ToolCommand(t) == CommandOfTool(libs[t], tools[t])

\* the right operand of / : a built Library or Tool, or a name
AnObject(id) == [isobj |-> TRUE, id |-> id, name |-> VNone]
AName(v) == [isobj |-> FALSE, id |-> 0, name |-> v]

\* SAGA.__truediv__ : the Library that was given, or get_library(str(name));
\* id is the library that was given, 0 for a new object
SagaTruediv_Rebuild(x) ==
    [id |-> 0,
     obj |-> NewLibrary(IF x.isobj THEN libs[x.id].library ELSE StrOf(x.name))]

SagaTruediv(x) ==
    IF x.isobj THEN [id |-> x.id, obj |-> libs[x.id]]
    ELSE [id |-> 0, obj |-> NewLibrary(StrOf(x.name))]

\* Library.__truediv__ : the Tool that was given, or get_tool(str(name))
LibraryTruediv(lib, x) ==
    IF x.isobj THEN [id |-> x.id, obj |-> tools[x.id]]
    ELSE [id |-> 0, obj |-> NewTool(lib, StrOf(x.name))]

\* SAGA.get_tool(library, tool) : the new Tool and its new Library
SagaGetTool(library, tool) ==
    LET library_ == NewLibrary(library)
    IN  [library |-> library_, obj |-> NewTool(library_, tool)]

\* the command property of a target
TargetCommand(target) ==
    CASE target[1] = "saga" -> SagaCommand
      [] target[1] = "library" -> LibraryCommand(target[2])
      [] OTHER -> ToolCommand(target[2])

(***************************************************************************)
(* Tool.__call__ and Parameters.__setitem__                                *)
(***************************************************************************)
\* Tool.__getattr__ returns None for a name that is not an attribute
AttrRead(t, p) ==
    IF tools[t].attrs[p].has THEN VStr(tools[t].attrs[p].v) ELSE VNone

\* a keyword-argument value written as a literal
Literal(v) == [v |-> v, ft |-> 0, fp |-> <<>>]

\* a keyword-argument value written as tool.param, as in
\* sink_removal(dem=route_detection.elevation)
FromAttr(t, p) == [v |-> AttrRead(t, p), ft |-> t, fp |-> p]

KwEntries(values) ==
    {[param |-> p, v |-> x.v, ft |-> x.ft, fp |-> x.fp] :
        p \in ParamNames, x \in values}

\* **kwargs : one entry
Kwargs1(values) == {<<e>> : e \in KwEntries(values)}

\* **kwargs : none, one or two entries with distinct names, in the order written
Kwargs(values) ==
    {<<>>} \cup Kwargs1(values)
           \cup {kw \in {<<e1, e2>> : e1 \in KwEntries(values),
                                      e2 \in KwEntries(values)} :
                    kw[1].param # kw[2].param}

Suffixes == {<<>>, ShpSuffix, SdatSuffix}

\* the suffix picked by infer_file_extension for each entry that needs one
InferChoices(kw) ==
    {sel \in [1..Len(kw) -> Suffixes] :
        \A i \in 1..Len(kw) :
            IF NeedsInference(StrOf(kw[i].v))
            THEN sel[i] \in InferSuffixes(StrOf(kw[i].v))
            ELSE sel[i] = <<>>}

UsesTempDir(kw) == \E i \in 1..Len(kw) : IsTempPlaceholder(StrOf(kw[i].v))

\* Parameters.__init__ : for param, value in kwargs.items(): self[param] = value
ParametersInit(kw, sel, tdir, unix) ==
    [i \in 1..Len(kw) |->
        [param |-> kw[i].param,
         value |-> SetItemValue(kw[i].param, StrOf(kw[i].v), tdir, unix, sel[i])]]

\* what the history keeps of one run of __setitem__ over kw; before is the
\* dict that a single write to tool.parameters met
LastOf(t, op, kw, parameters, tdir) ==
    [t |-> t,
     op |-> op,
     before |-> IF op = "setitem" THEN tools[t].parameters ELSE <<>>,
     items |-> [i \in 1..Len(kw) |->
        [param |-> kw[i].param,
         v |-> kw[i].v,
         raw |-> StrOf(kw[i].v),
         existed |-> Exists(StrOf(kw[i].v)),
         ft |-> kw[i].ft,
         fp |-> kw[i].fp,
         stored |-> (CHOOSE e \in {parameters[j] : j \in 1..Len(parameters)} :
                        e.param = kw[i].param).value]],
     tdir |-> tdir,
     tdirExists |-> TRUE,
     unix |-> clock]

GeneratedPaths(kw, tdir, unix) ==
    {SetItemValue(kw[i].param, StrOf(kw[i].v), tdir, unix, <<>>) :
        i \in {j \in 1..Len(kw) : IsTempPlaceholder(StrOf(kw[j].v))}}

\* the effect on the temp directory and on the histories of storing kw
StoreEffects(t, op, kw, parameters) ==
    /\ UsesTempDir(kw) /\ tempDir \notin dirs => DirsMade < MaxDirs
    /\ IF UsesTempDir(kw)
       THEN /\ tempDir' = TempDirRead
            /\ dirs' = dirs \cup {TempDirRead}
            /\ dirCount' = IF tempDir \in dirs THEN dirCount ELSE dirCount + 1
       ELSE UNCHANGED <<tempDir, dirs, dirCount>>
    /\ subs' = subs (+) SetToBag(GeneratedPaths(kw, TempDirRead, clock))
    /\ last' = [LastOf(t, op, kw, parameters, TempDirRead)
                    EXCEPT !.tdirExists = UsesTempDir(kw) \/ tempDir \in dirs]

\* the name of the property SAGAExecutable.flag: setattr and delattr with
\* this name run the setter and the deleter of the property
FlagName == <<"f", "l", "a", "g">>

\* delattr(self, p) finds something to delete
HasAttr(t, p) == IF p = FlagName THEN TRUE ELSE tools[t].attrs[p].has

HasParam(parameters, p) == \E i \in 1..Len(parameters) : parameters[i].param = p

\* Tool._del_attr_params over the first n parameters: delattr(self, 'flag')
\* is the flag deleter
FlagAfterDel(t, n) ==
    IF HasParam(SubSeq(tools[t].parameters, 1, n), FlagName)
    THEN NoFlag ELSE tools[t].flag

\* Tool._set_attr_params : setattr(self, 'flag', value) is the flag setter
FlagAfterSet(f, parameters) ==
    IF HasParam(parameters, FlagName)
    THEN MkFlag((CHOOSE e \in {parameters[j] : j \in 1..Len(parameters)} :
                    e.param = FlagName).value)
    ELSE f

\* Tool._del_attr_params succeeds when every parameter is an attribute
DelAttrOk(t) ==
    \A i \in 1..Len(tools[t].parameters) :
        HasAttr(t, tools[t].parameters[i].param)

\* Tool._set_attr_params after Tool._del_attr_params
AttrsOf(parameters) ==
    [p \in ParamNames |->
        IF \E i \in 1..Len(parameters) : parameters[i].param = p
        THEN [has |-> TRUE,
              v |-> (CHOOSE e \in {parameters[j] : j \in 1..Len(parameters)} :
                        e.param = p).value]
        ELSE NoAttr]

\* Parameters.__setitem__ raises ValueError for str(value) = '': Path('') is
\* the directory '.', which exists and has no suffix, infer_file_extension
\* finds no file with the stem '' and Path('.').with_suffix('') has no name
\* to work on
SetItemRaises(value) == value = <<>>

\* Tool.__call__(**kwargs)
Call(t, kw, sel) ==
    /\ tools[t].made
    /\ calls < MaxCalls
    /\ DelAttrOk(t)
    /\ \A i \in 1..Len(kw) : ~SetItemRaises(StrOf(kw[i].v))
    /\ LET parameters == ParametersInit(kw, sel, TempDirRead, clock)
       IN  /\ StoreEffects(t, "call", kw, parameters)
           /\ tools' = [tools EXCEPT
                        ![t].parameters = parameters,
                        ![t].attrs = AttrsOf(parameters),
                        ![t].flag = FlagAfterSet(
                            FlagAfterDel(t, Len(tools[t].parameters)), parameters)]
    /\ calls' = calls + 1
    /\ UNCHANGED execVars
    /\ UNCHANGED pipeVars
    /\ UNCHANGED otherVars
    /\ UNCHANGED flagLast
    /\ UNCHANGED <<sagaFlag, libs, clock, fs, flagOps>>

\* Tool.__call__ when delattr raises AttributeError: a parameter that was
\* stored with tool.parameters[p] = v has no attribute to delete.  The
\* attributes deleted before the failing one stay deleted.
CallFails(t) ==
    /\ tools[t].made
    /\ calls < MaxCalls
    /\ ~DelAttrOk(t)
    /\ LET ps == tools[t].parameters
           bad == CHOOSE i \in 1..Len(ps) :
                     /\ ~HasAttr(t, ps[i].param)
                     /\ \A j \in 1..(i-1) : HasAttr(t, ps[j].param)
       IN  tools' = [tools EXCEPT
                        ![t].attrs =
                            [p \in ParamNames |->
                                IF \E j \in 1..(bad-1) : ps[j].param = p
                                THEN NoAttr ELSE tools[t].attrs[p]],
                        ![t].flag = FlagAfterDel(t, bad - 1)]
    /\ calls' = calls + 1
    /\ UNCHANGED execVars
    /\ UNCHANGED pipeVars
    /\ UNCHANGED otherVars
    /\ UNCHANGED flagLast
    /\ UNCHANGED <<sagaFlag, libs, clock, tempDir, dirs, dirCount, fs, subs,
                   last, flagOps>>

\* Tool.__call__(**kwargs) when Parameters(self, **kwargs) raises on its first
\* entry: _del_attr_params has run, self.parameters is not assigned and
\* _set_attr_params is not reached
CallRaises(t, kw) ==
    /\ tools[t].made
    /\ calls < MaxCalls
    /\ DelAttrOk(t)
    /\ kw # <<>>
    /\ SetItemRaises(StrOf(kw[1].v))
    /\ tools' = [tools EXCEPT
                    ![t].attrs =
                        [p \in ParamNames |->
                            IF \E i \in 1..Len(tools[t].parameters) :
                                    tools[t].parameters[i].param = p
                            THEN NoAttr ELSE tools[t].attrs[p]],
                    ![t].flag = FlagAfterDel(t, Len(tools[t].parameters))]
    /\ UNCHANGED execVars
    /\ UNCHANGED pipeVars
    /\ UNCHANGED otherVars
    /\ UNCHANGED flagLast
    /\ UNCHANGED <<sagaFlag, libs, clock, tempDir, dirs, dirCount, fs, subs,
                   last, flagOps, calls>>

\* tool.parameters[param] = value : Parameters.__setitem__ alone
ParamSetItem(t, e, sel) ==
    /\ tools[t].made
    /\ calls < MaxCalls
    /\ LET stored == ParametersInit(<<e>>, sel, TempDirRead, clock)
           parameters == DictSet(tools[t].parameters, e.param, stored[1].value)
       IN  /\ StoreEffects(t, "setitem", <<e>>, parameters)
           /\ tools' = [tools EXCEPT ![t].parameters = parameters]
    /\ calls' = calls + 1
    /\ UNCHANGED execVars
    /\ UNCHANGED pipeVars
    /\ UNCHANGED otherVars
    /\ UNCHANGED flagLast
    /\ UNCHANGED <<sagaFlag, libs, clock, fs, flagOps>>

(***************************************************************************)
(* Pipeline: Pipeline.__init__, Tool.__or__, Pipeline.__or__               *)
(***************************************************************************)
\* self.tools.append(tool)
Appended_First(tools_, tool) == <<tool>> \o tools_

Appended(tools_, tool) == Append(tools_, tool)

\* Pipeline(tool) : self.tools = [tool]; bound keeps the command that the
\* tool has when it is put into the pipeline
NewPipeline(tool) == [tools |-> <<tool>>, bound |-> <<ToolCommand(tool)>>]

\* Pipeline(tool)
PipelineInit(tool) ==
    /\ tools[tool].made
    /\ Len(pipes) < MaxPipes
    /\ pipes' = Append(pipes, NewPipeline(tool))
    /\ pipeRet' = [op |-> "init", ret |-> Len(pipes) + 1, left |-> 0,
                   tool |-> tool, before |-> <<>>]
    /\ UNCHANGED execVars
    /\ UNCHANGED otherVars
    /\ UNCHANGED <<sagaFlag, libs, tools, clock, tempDir, dirs, dirCount, fs, subs,
                   last, flagOps, flagLast, calls>>

\* Tool.__or__ : return Pipeline(self) | (tool)
ToolOr(a, b) ==
    /\ tools[a].made /\ tools[b].made
    /\ Len(pipes) < MaxPipes
    /\ pipes' = Append(pipes, [tools |-> Appended(NewPipeline(a).tools, b),
                               bound |-> Append(NewPipeline(a).bound, ToolCommand(b))])
    /\ pipeRet' = [op |-> "tool_or", ret |-> Len(pipes) + 1, left |-> a,
                   tool |-> b, before |-> <<>>]
    /\ UNCHANGED execVars
    /\ UNCHANGED otherVars
    /\ UNCHANGED <<sagaFlag, libs, tools, clock, tempDir, dirs, dirCount, fs, subs,
                   last, flagOps, flagLast, calls>>

\* Pipeline.__or__ : self.tools.append(tool); return self
PipelineOr(p, tool) ==
    /\ p \in 1..Len(pipes)
    /\ tools[tool].made
    /\ Len(pipes[p].tools) < MaxPipeLen
    /\ pipes' = [pipes EXCEPT ![p].tools = Appended(@, tool),
                              ![p].bound = Append(@, ToolCommand(tool))]
    /\ pipeRet' = [op |-> "pipe_or", ret |-> p, left |-> p, tool |-> tool,
                   before |-> pipes[p].tools]
    /\ UNCHANGED execVars
    /\ UNCHANGED otherVars
    /\ UNCHANGED <<sagaFlag, libs, tools, clock, tempDir, dirs, dirCount, fs, subs,
                   last, flagOps, flagLast, calls>>

(***************************************************************************)
(* The temp directory, the clock and the file system                       *)
(***************************************************************************)
\* SAGA.temp_dir_cleanup : temp_files reads temp_dir, which makes a new
\* directory when the old one is gone; shutil.rmtree removes the tree
\* SAGA.temp_files : list(self.temp_dir.iterdir())
TempFiles(d) == {f \in fs : PathParent(f) = DirPath(d)}

\* shutil.rmtree(d) : the files that are left
RmTree_Keep(d) == fs

RmTree(d) == fs \ TempFiles(d)

TempDirCleanup ==
    /\ tempDir \notin dirs => DirsMade < MaxDirs
    /\ tempDir' = TempDirRead
    /\ dirCount' = IF tempDir \in dirs THEN dirCount ELSE dirCount + 1
    /\ dirs' = dirs \ {TempDirRead}
    /\ cleaned' = IF tempDir \in dirs THEN TempFiles(tempDir) ELSE {}
    /\ fs' = RmTree(TempDirRead)
    /\ UNCHANGED execVars
    /\ UNCHANGED pipeVars
    /\ UNCHANGED <<saga2, util>>
    /\ UNCHANGED flagLast
    /\ UNCHANGED <<sagaFlag, libs, tools, clock, subs, last, flagOps, calls>>

\* time.time() reaches the next second
Tick ==
    /\ clock < MaxClock
    /\ clock' = clock + 1
    /\ UNCHANGED execVars
    /\ UNCHANGED pipeVars
    /\ UNCHANGED otherVars
    /\ UNCHANGED flagLast
    /\ UNCHANGED <<sagaFlag, libs, tools, tempDir, dirs, dirCount, fs, subs,
                   last, flagOps, calls>>

\* a file of the user appears in the working directory
FsTouch(f) ==
    /\ f \in UserFiles \ fs
    /\ Cardinality(fs) < MaxFiles
    /\ fs' = fs \cup {f}
    /\ UNCHANGED execVars
    /\ UNCHANGED pipeVars
    /\ UNCHANGED otherVars
    /\ UNCHANGED flagLast
    /\ UNCHANGED <<sagaFlag, libs, tools, clock, tempDir, dirs, dirCount, subs,
                   last, flagOps, calls>>

\* the files the external tool may write for the parameter value v of a
\* temp directory: the file itself, or the file with the grid suffix added
OutputFiles(v) ==
    IF PathSuffix(v) = <<>> THEN {v, v \o SdatSuffix} ELSE {v}

\* the external program, run for tool t, writes one of its output files
OutputWritten(t, f) ==
    /\ tools[t].made
    /\ Cardinality(fs) < MaxFiles
    /\ f \notin fs
    /\ \E i \in 1..Len(tools[t].parameters) :
          /\ f \in OutputFiles(tools[t].parameters[i].value)
          /\ \E d \in dirs : PathParent(f) = DirPath(d)
    /\ fs' = fs \cup {f}
    /\ UNCHANGED execVars
    /\ UNCHANGED pipeVars
    /\ UNCHANGED otherVars
    /\ UNCHANGED flagLast
    /\ UNCHANGED <<sagaFlag, libs, tools, clock, tempDir, dirs, dirCount, subs,
                   last, flagOps, calls>>

(***************************************************************************)
(* Execution: Pipeline.execute runs Tool.execute for each stage; each      *)
(* stage spawns a child process with subprocess.Popen, reads its stdout    *)
(* and stderr pipes, and builds a ToolOutput.                              *)
(***************************************************************************)
\* the positions of a pipeline; the tool at position k is tool k
Stages == {1, 2}

\* what a child process may write: lines on stdout, chunks on stderr
OutLines == {<<"5", "%", "\n">>, <<"o", "k", "\n">>}
ErrChunks == {<<"\n">>, <<"E", "\n">>}

IsSpace(c) == c \in {" ", "\n", "\t", "\r"}

IsAlpha(c) == c \in {"o", "k", "E", "l", "d", "s"}

\* str.strip
Strip(s) ==
    IF \A i \in 1..Len(s) : IsSpace(s[i]) THEN <<>>
    ELSE LET first == CHOOSE i \in 1..Len(s) :
                        ~IsSpace(s[i]) /\ \A j \in 1..(i-1) : IsSpace(s[j])
             lst == CHOOSE i \in 1..Len(s) :
                        ~IsSpace(s[i]) /\ \A j \in (i+1)..Len(s) : IsSpace(s[j])
         IN  SubSeq(s, first, lst)

\* c in s
Contains(s, c) == \E i \in 1..Len(s) : s[i] = c

\* utils.print_end
PrintEnd(string) ==
    IF \/ \E i \in 1..Len(string) :
            i + 2 <= Len(string)
            /\ string[i] = "1" /\ string[i+1] = "0" /\ string[i+2] = "0"
       \/ \E i \in 1..Len(string) : IsAlpha(string[i])
    THEN "\n" ELSE "\r"

RECURSIVE JoinWith(_, _)
\* sep.join(strings)
JoinWith(sep, strings) ==
    IF Len(strings) = 0 THEN <<>>
    ELSE IF Len(strings) = 1 THEN strings[1]
    ELSE strings[1] \o sep \o JoinWith(sep, Tail(strings))

\* Tool.get_verbose_message
VerboseMessage(t) ==
    [i \in 1..25 |-> "-"] \o <<"\n">>
        \o libs[t].library \o <<" ", "/", " ">> \o tools[t].tool \o <<"\n">>
        \o <<" ", " ", " ", " ">>
        \o JoinWith(<<" ">>, Formatted(tools[t].parameters)) \o <<"\n">>

\* SAGA.version : None, or the major number of (maj, min, patch)
NoVersion == [known |-> FALSE, major |-> 0]
Versions == {NoVersion, [known |-> TRUE, major |-> 3], [known |-> TRUE, major |-> 9]}

\* SAGA._raster_formats / SAGA._vector_formats : None or a set of extensions
NoFormats == [isset |-> FALSE, exts |-> {}]
Formats(exts) == [isset |-> TRUE, exts |-> exts]

\* the truth value of a format set in any((raster, vector))
FormatsTruthy(f) == f.isset /\ f.exts # {}

\* the extensions that get_raster_formats always adds
SagaRasterExts == {<<"s", "d", "a", "t">>, <<"s", "g", "r", "d">>,
                   <<"s", "g", "-", "g", "r", "d", "-", "z">>}

\* get_formats : requires a known version with major >= 4
ProbeRuns == version.known /\ version.major >= 4

\* what one run of the format probe tool may give: the set of extensions
\* parsed from its listing, or an ExecutionError because it wrote to stderr
RasterListings == {{<<"t", "i", "f">>}}
VectorListings == {{}, {<<"s", "h", "p">>}}
ProbeRaises == [isset |-> FALSE, exts |-> {<<"!">>}]

\* a process that was not spawned; script is what a program that writes a
\* fixed sequence of chunks and exits has still to write
NoProc ==
    [state |-> "none", args |-> <<>>, outBuf |-> <<>>, errBuf |-> <<>>,
     outOpen |-> FALSE, errOpen |-> FALSE, wroteOut |-> <<>>, wroteErr |-> <<>>,
     writes |-> 0, script |-> <<>>]

\* subprocess.Popen(args, text=True, stdout=PIPE, stderr=PIPE)
Popen(args) ==
    [NoProc EXCEPT !.state = "running", !.args = args, !.outOpen = TRUE,
                   !.errOpen = TRUE]

\* Output.stderr : None, or the text
NoText == [isset |-> FALSE, text |-> <<>>]

\* ToolOutput._outputs : None, or the dict that get_files built; parameters,
\* files and rset keep the parameters of the tool, the files that existed and
\* whether the raster format set was known when it was built
NoOutputs ==
    [isset |-> FALSE, map |-> <<>>, parameters |-> <<>>, files |-> {},
     rset |-> FALSE]

\* the thread pool of Tool.execute: whether it was opened, where the two
\* probe tasks are, and the tasks in the order in which they finished
NoPool == [on |-> FALSE, raster |-> "none", vector |-> "none", finished |-> <<>>]

\* spawned counts the runs of the format listing tool, output is the task
\* whose result Tool.execute took as its output
IdleExe ==
    [pc |-> "idle", verbose |-> FALSE, ignore |-> FALSE, infer |-> TRUE,
     pipe |-> 0, tools |-> <<>>, n |-> 0, k |-> 0, built |-> {}, runs |-> 0,
     pool |-> NoPool, spawned |-> [raster |-> 0, vector |-> 0],
     output |-> "none"]

NoCur == [stdout |-> <<>>, stderr |-> <<>>]

NoErr == [raised |-> FALSE, by |-> 0, stderr |-> <<>>]

ExecIdle ==
    /\ rasterFormats = NoFormats
    /\ vectorFormats = NoFormats
    /\ exe = IdleExe
    /\ procs = [k \in Stages |-> NoProc]
    /\ cur = NoCur
    /\ outs = <<>>
    /\ err = NoErr
    /\ console = <<>>
    /\ history = {}

(***************************************************************************)
(* The child process                                                       *)
(***************************************************************************)
\* the child writes data to one of its pipes; a full pipe blocks it
ChildWrite(k, stream, data) ==
    /\ procs[k].state = "running"
    /\ procs[k].writes < MaxWrites
    /\ IF stream = "stdout"
       THEN /\ procs[k].outOpen
            /\ Len(procs[k].outBuf) < PipeCap
            /\ procs' = [procs EXCEPT ![k].outBuf = Append(@, data),
                                      ![k].wroteOut = @ \o data,
                                      ![k].writes = @ + 1]
       ELSE /\ procs[k].errOpen
            /\ Len(procs[k].errBuf) < PipeCap
            /\ procs' = [procs EXCEPT ![k].errBuf = Append(@, data),
                                      ![k].wroteErr = @ \o data,
                                      ![k].writes = @ + 1]
    /\ UNCHANGED <<version, rasterFormats, vectorFormats, exe, cur, outs, err,
                   console, history>>
    /\ UNCHANGED objVars

\* the child closes one of its pipes and keeps running
ChildClose(k, stream) ==
    /\ procs[k].state = "running"
    /\ IF stream = "stdout"
       THEN procs[k].outOpen /\ procs' = [procs EXCEPT ![k].outOpen = FALSE]
       ELSE procs[k].errOpen /\ procs' = [procs EXCEPT ![k].errOpen = FALSE]
    /\ UNCHANGED <<version, rasterFormats, vectorFormats, exe, cur, outs, err,
                   console, history>>
    /\ UNCHANGED objVars

\* the child exits: the pipes it still holds are closed, poll() is not None
ChildExit(k) ==
    /\ procs[k].state = "running"
    /\ procs' = [procs EXCEPT ![k].state = "exited", ![k].outOpen = FALSE,
                              ![k].errOpen = FALSE]
    /\ UNCHANGED <<version, rasterFormats, vectorFormats, exe, cur, outs, err,
                   console, history>>
    /\ UNCHANGED objVars

\* the pipe of a stream of the child k is full: a write to it blocks
PipeFull(k, stream) ==
    IF stream = "stdout" THEN Len(procs[k].outBuf) >= PipeCap
    ELSE Len(procs[k].errBuf) >= PipeCap

\* the child runs its script: the next write, which waits while the pipe is
\* full
ScriptWrite(k) ==
    /\ procs[k].state = "running"
    /\ procs[k].script # <<>>
    /\ LET w == Head(procs[k].script)
       IN  /\ ~PipeFull(k, w.stream)
           /\ procs' = [procs EXCEPT
                ![k].outBuf = IF w.stream = "stdout" THEN Append(@, w.data) ELSE @,
                ![k].wroteOut = IF w.stream = "stdout" THEN @ \o w.data ELSE @,
                ![k].errBuf = IF w.stream = "stderr" THEN Append(@, w.data) ELSE @,
                ![k].wroteErr = IF w.stream = "stderr" THEN @ \o w.data ELSE @,
                ![k].writes = @ + 1,
                ![k].script = Tail(@)]
    /\ UNCHANGED <<version, rasterFormats, vectorFormats, exe, cur, outs, err,
                   console, history>>
    /\ UNCHANGED objVars

\* the child has written all of its script and exits
ScriptExit(k) ==
    /\ procs[k].script = <<>>
    /\ ChildExit(k)

(***************************************************************************)
(* Pipeline.execute, Tool.execute, Command.execute, dynamic_print          *)
(***************************************************************************)
\* Pipeline.execute(verbose, ignore_stderr) on the pipeline of the tools 1..n
PipelineExecute(verbose, ignore, n) ==
    /\ exe.pc = "idle"
    /\ exe' = [exe EXCEPT !.pc = "begin", !.verbose = verbose,
                          !.ignore = ignore, !.tools = [i \in 1..n |-> i],
                          !.n = n, !.k = 1]
    /\ UNCHANGED <<version, rasterFormats, vectorFormats, procs, cur, outs, err,
                   console, history>>
    /\ UNCHANGED objVars

\* Pipeline.execute(verbose, ignore_stderr) on the Pipeline object p
PipelineExecuteOf(p, verbose, ignore) ==
    /\ exe.pc = "idle"
    /\ p \in 1..Len(pipes)
    /\ Len(pipes[p].tools) \in Stages
    /\ exe' = [exe EXCEPT !.pc = "begin", !.verbose = verbose,
                          !.ignore = ignore, !.pipe = p,
                          !.tools = pipes[p].tools,
                          !.n = Len(pipes[p].tools), !.k = 1]
    /\ UNCHANGED <<version, rasterFormats, vectorFormats, procs, cur, outs, err,
                   console, history>>
    /\ UNCHANGED objVars

\* tool.execute(verbose, ignore_stderr, infer_obj_type) with no keyword
\* argument for the tool (with some, Tool.__call__ runs first)
ToolExecute(t, verbose, ignore, infer) ==
    /\ exe.pc = "idle"
    /\ tools[t].made
    /\ exe' = [exe EXCEPT !.pc = "begin", !.verbose = verbose,
                          !.ignore = ignore, !.infer = infer,
                          !.tools = <<t>>, !.n = 1, !.k = 1]
    /\ UNCHANGED <<version, rasterFormats, vectorFormats, procs, cur, outs, err,
                   console, history>>
    /\ UNCHANGED objVars

\* Tool.execute up to Command.execute : the header is printed when verbose,
\* the process is spawned
SpawnWith(script) ==
    /\ exe.pc = "begin"
    /\ procs' = [procs EXCEPT ![exe.k] =
                    [Popen(ToolCommand(exe.tools[exe.k])) EXCEPT !.script = script]]
    /\ console' = IF exe.verbose
                  THEN Append(console, [text |-> VerboseMessage(exe.tools[exe.k]),
                                        end |-> "\n"])
                  ELSE console
    /\ cur' = NoCur
    /\ exe' = [exe EXCEPT !.pc = IF exe.verbose THEN "dprint" ELSE "join"]
    /\ UNCHANGED <<version, rasterFormats, vectorFormats, outs, err, history>>
    /\ UNCHANGED objVars

Spawn == SpawnWith(<<>>)

\* dynamic_print : popen.stdout.readline() returns a line, which is printed
\* when it holds a '%'
DynamicPrintLine ==
    /\ exe.pc = "dprint"
    /\ procs[exe.k].outBuf # <<>>
    /\ LET output == Strip(Head(procs[exe.k].outBuf))
       IN  console' = IF Contains(output, "%")
                      THEN Append(console, [text |-> Strip(output),
                                            end |-> PrintEnd(output)])
                      ELSE console
    /\ procs' = [procs EXCEPT ![exe.k].outBuf = Tail(@)]
    /\ UNCHANGED <<version, rasterFormats, vectorFormats, exe, cur, outs, err,
                   history>>
    /\ UNCHANGED objVars

\* dynamic_print : readline() returns '' at end of file and poll() is not
\* None, the loop ends
DynamicPrintBreak ==
    /\ exe.pc = "dprint"
    /\ procs[exe.k].outBuf = <<>>
    /\ ~procs[exe.k].outOpen
    /\ procs[exe.k].state = "exited"
    /\ exe' = [exe EXCEPT !.pc = "join"]
    /\ UNCHANGED <<version, rasterFormats, vectorFormats, procs, cur, outs, err,
                   console, history>>
    /\ UNCHANGED objVars

\* Tool.execute : not any((saga._raster_formats, saga._vector_formats))
\* and infer_obj_type
Probing ==
    ~FormatsTruthy(rasterFormats) /\ ~FormatsTruthy(vectorFormats) /\ exe.infer

\* Tool.execute : output = command_partial(), the format sets are known
Join ==
    /\ exe.pc = "join"
    /\ ~Probing
    /\ exe' = [exe EXCEPT !.pc = "rd_out"]
    /\ UNCHANGED <<version, rasterFormats, vectorFormats, procs, cur, outs, err,
                   console, history>>
    /\ UNCHANGED objVars

\* SAGA.get_raster_formats with the result r of get_formats
RasterFormatsAfter_Probed(r) ==
    IF rasterFormats.isset THEN rasterFormats
    ELSE IF r = ProbeRaises THEN rasterFormats
    ELSE r

RasterFormatsAfter(r) ==
    IF rasterFormats.isset THEN rasterFormats
    ELSE IF r = ProbeRaises THEN rasterFormats
    ELSE Formats((IF r.isset THEN r.exts ELSE {}) \cup SagaRasterExts)

\* SAGA.get_vector_formats with the result v of get_formats
VectorFormatsAfter(v) ==
    IF vectorFormats.isset THEN vectorFormats
    ELSE IF v = ProbeRaises THEN vectorFormats
    ELSE v

\* Tool.execute : the three tasks of the thread pool have finished; r and v
\* are what get_formats gave for the raster and the vector formats.  The
\* results are taken in the order raster, vector, command: the first
\* exception is the one that leaves Tool.execute.
JoinProbes(r, v) ==
    /\ exe.pc = "join"
    /\ Probing
    /\ IF ProbeRuns
       THEN /\ r \in {ProbeRaises} \cup {Formats(x) : x \in RasterListings}
            /\ v \in {ProbeRaises} \cup {Formats(x) : x \in VectorListings}
       ELSE r = NoFormats /\ v = NoFormats
    /\ rasterFormats' = RasterFormatsAfter(r)
    /\ vectorFormats' = VectorFormatsAfter(v)
    /\ IF r = ProbeRaises \/ v = ProbeRaises
       THEN /\ exe' = [exe EXCEPT !.pc = "raised"]
            /\ err' = [raised |-> TRUE, by |-> 0, stderr |-> <<"E">>]
       ELSE /\ exe' = [exe EXCEPT !.pc = "rd_out"]
            /\ UNCHANGED err
    /\ UNCHANGED <<version, procs, cur, outs, console, history>>
    /\ UNCHANGED objVars

(***************************************************************************)
(* The thread pool of Tool.execute, task by task                           *)
(***************************************************************************)
ProbeKinds == {"raster", "vector"}

FormatsOf(kind) == IF kind = "raster" THEN rasterFormats ELSE vectorFormats

\* get_raster_formats / get_vector_formats : if self._x_formats is None
NeedsProbe_Always(formats) == TRUE

NeedsProbe(formats) == ~formats.isset

\* what get_formats may return when the listing tool has run
ProbeResults(kind) ==
    {ProbeRaises} \cup {Formats(x) : x \in IF kind = "raster" THEN RasterListings
                                                              ELSE VectorListings}

\* the assignment to self._raster_formats or self._vector_formats
StoreFormats(kind, result) ==
    /\ rasterFormats' = IF kind = "raster" THEN RasterFormatsAfter(result)
                                            ELSE rasterFormats
    /\ vectorFormats' = IF kind = "vector" THEN VectorFormatsAfter(result)
                                            ELSE vectorFormats

\* Tool.execute : the condition holds, the executor is entered and the three
\* functions are submitted
PoolOpen ==
    /\ exe.pc = "begin"
    /\ ~exe.pool.on
    /\ Probing
    /\ exe' = [exe EXCEPT !.pool = [NoPool EXCEPT !.on = TRUE, !.raster = "ready",
                                                  !.vector = "ready"]]
    /\ UNCHANGED <<version, rasterFormats, vectorFormats, procs, cur, outs, err,
                   console, history>>
    /\ UNCHANGED objVars

\* the command task has finished when Command.execute has returned
CommandTaskDone == exe.pc = "join"

\* the tasks in the order they finished, once the task kind finishes now
FinishedWith(kind) ==
    (IF CommandTaskDone /\ \A i \in 1..Len(exe.pool.finished) :
                              exe.pool.finished[i] # "command"
     THEN Append(exe.pool.finished, "command")
     ELSE exe.pool.finished) \o <<kind>>

\* a probe task starts: the set is already stored, or get_formats returns
\* None for the version, or the listing tool is spawned
ProbeStart(kind) ==
    /\ exe.pool.on
    /\ exe.pool[kind] = "ready"
    /\ IF ~NeedsProbe(FormatsOf(kind))
       THEN /\ exe' = [exe EXCEPT !.pool[kind] = "done",
                                  !.pool.finished = FinishedWith(kind)]
            /\ UNCHANGED <<rasterFormats, vectorFormats>>
       ELSE IF ~ProbeRuns
       THEN /\ exe' = [exe EXCEPT !.pool[kind] = "done",
                                  !.pool.finished = FinishedWith(kind)]
            /\ StoreFormats(kind, NoFormats)
       ELSE /\ exe.spawned[kind] < MaxSpawns
            /\ exe' = [exe EXCEPT !.pool[kind] = "running",
                                  !.spawned[kind] = @ + 1]
            /\ UNCHANGED <<rasterFormats, vectorFormats>>
    /\ UNCHANGED <<version, procs, cur, outs, err, console, history>>
    /\ UNCHANGED objVars

\* the listing tool of a probe task has run: get_formats returns result or
\* raises
ProbeEnd(kind, result) ==
    /\ exe.pool.on
    /\ exe.pool[kind] = "running"
    /\ result \in ProbeResults(kind)
    /\ StoreFormats(kind, result)
    /\ exe' = [exe EXCEPT
                !.pool[kind] = IF result = ProbeRaises THEN "raised" ELSE "done",
                !.pool.finished = FinishedWith(kind)]
    /\ UNCHANGED <<version, procs, cur, outs, err, console, history>>
    /\ UNCHANGED objVars

\* executor.map(lambda f: f(), funcs) : the tasks with their results in the
\* order of funcs
MapResults_AsCompleted(pool) ==
    IF \E i \in 1..Len(pool.finished) : pool.finished[i] = "command"
    THEN pool.finished ELSE Append(pool.finished, "command")

MapResults(pool) == <<"raster", "vector", "command">>

\* Tool.execute : the executor is left when the three tasks have finished;
\* output is the last of the results, and the first exception in the order
\* of funcs leaves Tool.execute
JoinPool ==
    /\ exe.pc = "join"
    /\ exe.pool.on
    /\ exe.output = "none"
    /\ \A kind \in ProbeKinds : exe.pool[kind] \in {"done", "raised"}
    /\ LET results == MapResults(exe.pool)
           output == results[Len(results)]
       IN  IF \E kind \in ProbeKinds : exe.pool[kind] = "raised"
           THEN /\ exe' = [exe EXCEPT !.pc = "raised", !.output = "raised"]
                /\ err' = [raised |-> TRUE, by |-> 0, stderr |-> <<"E">>]
           ELSE /\ exe' = [exe EXCEPT !.pc = "rd_out", !.output = output]
                /\ UNCHANGED err
    /\ UNCHANGED <<version, rasterFormats, vectorFormats, procs, cur, outs,
                   console, history>>
    /\ UNCHANGED objVars

\* saga.get_raster_formats() or saga.get_vector_formats() called by the user
GetFormatsCall(kind, result) ==
    /\ exe.pc \in {"idle", "returned", "raised"}
    /\ NeedsProbe(FormatsOf(kind))
    /\ IF ProbeRuns
       THEN /\ exe.spawned[kind] < MaxSpawns
            /\ result \in ProbeResults(kind)
            /\ exe' = [exe EXCEPT !.spawned[kind] = @ + 1]
       ELSE /\ result = NoFormats
            /\ kind = "raster"
            /\ UNCHANGED exe
    /\ StoreFormats(kind, result)
    /\ UNCHANGED <<version, procs, cur, outs, err, console, history>>
    /\ UNCHANGED objVars

(***************************************************************************)
(* Output.__post_init__                                                    *)
(***************************************************************************)
\* completed_process.stdout.read() receives what is in the pipe
ReadStdout ==
    /\ exe.pc = "rd_out"
    /\ procs[exe.k].outBuf # <<>>
    /\ cur' = [cur EXCEPT !.stdout = @ \o Head(procs[exe.k].outBuf)]
    /\ procs' = [procs EXCEPT ![exe.k].outBuf = Tail(@)]
    /\ UNCHANGED <<version, rasterFormats, vectorFormats, exe, outs, err,
                   console, history>>
    /\ UNCHANGED objVars

\* completed_process.stdout.read() returns at end of file
StdoutEof ==
    /\ exe.pc = "rd_out"
    /\ procs[exe.k].outBuf = <<>>
    /\ ~procs[exe.k].outOpen
    /\ exe' = [exe EXCEPT !.pc = "rd_err"]
    /\ UNCHANGED <<version, rasterFormats, vectorFormats, procs, cur, outs, err,
                   console, history>>
    /\ UNCHANGED objVars

\* stderr.read() receives what is in the pipe
ReadStderr ==
    /\ exe.pc = "rd_err"
    /\ procs[exe.k].errBuf # <<>>
    /\ cur' = [cur EXCEPT !.stderr = @ \o Head(procs[exe.k].errBuf)]
    /\ procs' = [procs EXCEPT ![exe.k].errBuf = Tail(@)]
    /\ UNCHANGED <<version, rasterFormats, vectorFormats, exe, outs, err,
                   console, history>>
    /\ UNCHANGED objVars

\* read := stderr.read().strip()
StderrRead_NoStrip(text) == text

StderrRead(text) == Strip(text)

\* the test that raises ExecutionError
Raises_Never(read, ignore) == FALSE

Raises(read, ignore) == read # <<>> /\ ~ignore

\* what the history keeps of a finished invocation
Finished(outcome, stdout, stderr) ==
    [verbose |-> exe.verbose, ignore |-> exe.ignore,
     wroteOut |-> procs[exe.k].wroteOut, wroteErr |-> procs[exe.k].wroteErr,
     outcome |-> outcome, stdout |-> stdout, stderr |-> stderr]

\* stderr.read() returns at end of file: the error is raised, or the
\* ToolOutput is complete and Pipeline.execute goes on
StderrEof ==
    /\ exe.pc = "rd_err"
    /\ procs[exe.k].errBuf = <<>>
    /\ ~procs[exe.k].errOpen
    /\ LET read == StderrRead(cur.stderr)
           stderr == IF read # <<>> THEN [isset |-> TRUE, text |-> read]
                     ELSE NoText
       IN  IF Raises(read, exe.ignore)
           THEN /\ err' = [raised |-> TRUE, by |-> exe.k, stderr |-> read]
                /\ exe' = [exe EXCEPT !.pc = "raised", !.built = @ \cup {exe.k}]
                /\ history' = history \cup {Finished("raised", cur.stdout,
                                                [isset |-> TRUE, text |-> read])}
                /\ UNCHANGED outs
           ELSE /\ outs' = Append(outs, [stdout |-> cur.stdout, stderr |-> stderr,
                                         saga_executable |-> exe.tools[exe.k],
                                         bound |-> tools[exe.tools[exe.k]].parameters,
                                         outputs |-> NoOutputs])
                /\ exe' = [exe EXCEPT
                            !.pc = IF exe.k < exe.n THEN "begin" ELSE "returned",
                            !.k = IF exe.k < exe.n THEN exe.k + 1 ELSE exe.k,
                            !.built = @ \cup {exe.k}]
                /\ history' = history \cup {Finished("output", cur.stdout, stderr)}
                /\ UNCHANGED err
    /\ UNCHANGED <<version, rasterFormats, vectorFormats, procs, cur, console>>
    /\ UNCHANGED objVars

(***************************************************************************)
(* ToolOutput.files, rasters, vectors                                      *)
(***************************************************************************)
\* str.strip('.')
RECURSIVE StripDots(_)
StripDots(s) ==
    IF s = <<>> THEN s
    ELSE IF Head(s) = "." THEN StripDots(Tail(s))
    ELSE IF s[Len(s)] = "." THEN StripDots(SubSeq(s, 1, Len(s) - 1))
    ELSE s

\* Path.is_file
IsFile_Exists(path) == Exists(path)

IsFile(path) == path \in fs

\* ToolOutput.is_raster
IsRaster(path) ==
    rasterFormats.isset /\ StripDots(PathSuffix(path)) \in rasterFormats.exts

\* ToolOutput.is_vector
IsVector(path) ==
    vectorFormats.isset /\ StripDots(PathSuffix(path)) \in vectorFormats.exts

\* the object get_files stores for a file: Raster(path), Vector(path) or path
FileObject(path) ==
    IF IsRaster(path) THEN "Raster"
    ELSE IF IsVector(path) THEN "Vector"
    ELSE "Path"

\* ToolOutput.get_files : over the items of the parameters of the tool, in
\* their order; every stored value is a string, so Path(value) never raises
GetFiles(t) ==
    LET kept == SelectSeq(tools[t].parameters, LAMBDA item : IsFile(item.value))
    IN  [i \in 1..Len(kept) |->
            [param |-> kept[i].param, path |-> kept[i].value,
             object |-> FileObject(kept[i].value)]]

\* ToolOutput.files of the i-th output: built on the first access, and the
\* same dict on every later one
FilesAccess(i) ==
    /\ exe.pc = "returned"
    /\ i \in 1..Len(outs)
    /\ outs' = IF outs[i].outputs.isset THEN outs
               ELSE [outs EXCEPT ![i].outputs =
                        [isset |-> TRUE,
                         map |-> GetFiles(outs[i].saga_executable),
                         parameters |-> tools[outs[i].saga_executable].parameters,
                         files |-> fs,
                         rset |-> rasterFormats.isset]]
    /\ UNCHANGED <<version, rasterFormats, vectorFormats, exe, procs, cur, err,
                   console, history>>
    /\ UNCHANGED objVars

\* ToolOutput.rasters / ToolOutput.vectors : the files of one class
FilesOfClass(outputs, object) ==
    SelectSeq(outputs.map, LAMBDA entry : entry.object = object)

\* the caller starts over with another Pipeline.execute
ExecuteAgain ==
    /\ exe.pc \in {"returned", "raised"}
    /\ exe.runs + 1 < MaxRuns
    /\ exe' = [IdleExe EXCEPT !.runs = exe.runs + 1, !.spawned = exe.spawned]
    /\ procs' = [k \in Stages |-> NoProc]
    /\ cur' = NoCur
    /\ outs' = <<>>
    /\ err' = NoErr
    /\ console' = <<>>
    /\ UNCHANGED <<version, rasterFormats, vectorFormats, history>>
    /\ UNCHANGED objVars

(***************************************************************************)
(* Specification of the targets and their commands: one Program, one       *)
(* Library and one Tool are built, flagged and parameterized.              *)
(***************************************************************************)
FlagValues == {VStr(s) : s \in FlagInputs} \cup {VNone}

CmdTargets == {<<"saga", 0>>, <<"library", 1>>, <<"tool", 1>>}

CmdValues == {Literal(VStr(DemTif)), Literal(VInt(0))}

Next ==
    \/ \E target \in CmdTargets, v \in FlagValues : FlagSet(target, v)
    \/ \E target \in CmdTargets : FlagDelete(target)
    \/ \E name \in LibraryNames : GetLibrary(1, name)
    \/ \E name \in ToolNames : GetTool(1, name)
    \/ \E kw \in Kwargs(CmdValues) : \E sel \in InferChoices(kw) : Call(1, kw, sel)

Init == ObjInit /\ ExecIdle /\ version = NoVersion

Spec == Init /\ [][Next]_vars

(***************************************************************************)
(* Specification of the execution: a pipeline of the two tools is run.     *)
(***************************************************************************)
BuiltLibrary == [made |-> TRUE, library |-> <<"l">>, flag |-> NoFlag]

BuiltTool == [NoTool EXCEPT !.made = TRUE, !.tool = <<"0">>]

\* the state after tools were built from one Program and one Library each
BuiltInit ==
    /\ sagaFlag = NoFlag
    /\ libs = [l \in ToolIds |-> BuiltLibrary]
    /\ tools = [t \in ToolIds |-> BuiltTool]
    /\ clock = 0
    /\ tempDir = 1
    /\ dirs = {1}
    /\ dirCount = 1
    /\ fs = {}
    /\ subs = EmptyBag
    /\ last = NoLast
    /\ flagOps = 0
    /\ flagLast = NoFlagLast
    /\ pipes = <<>>
    /\ pipeRet = NoPipeRet
    /\ cleaned = {}
    /\ saga2 = NoSaga2
    /\ util = NoUtil
    /\ calls = 0

InitExec == BuiltInit /\ ExecIdle /\ version \in Versions

NextExec ==
    \/ \E verbose \in BOOLEAN, ignore \in BOOLEAN, n \in Stages :
            PipelineExecute(verbose, ignore, n)
    \/ Spawn
    \/ \E k \in Stages, data \in OutLines : ChildWrite(k, "stdout", data)
    \/ \E k \in Stages, data \in ErrChunks : ChildWrite(k, "stderr", data)
    \/ \E k \in Stages, stream \in {"stdout", "stderr"} : ChildClose(k, stream)
    \/ \E k \in Stages : ChildExit(k)
    \/ DynamicPrintLine
    \/ DynamicPrintBreak
    \/ Join
    \/ \E r \in {ProbeRaises, NoFormats} \cup {Formats(x) : x \in RasterListings},
          v \in {ProbeRaises, NoFormats} \cup {Formats(x) : x \in VectorListings} :
            JoinProbes(r, v)
    \/ ReadStdout
    \/ StdoutEof
    \/ ReadStderr
    \/ StderrEof

SpecExec == InitExec /\ [][NextExec]_vars

(***************************************************************************)
(* Specification of the parameters of one tool: it is parameterized by     *)
(* calls and by writes to tool.parameters.                                 *)
(***************************************************************************)
ParamValues ==
    {Literal(VStr(DemTif)), Literal(VStr(TempSdat)), Literal(VInt(0)),
     Literal(VNone)}

InitParams == BuiltInit /\ ExecIdle /\ version = NoVersion

NextParams ==
    \/ \E kw \in Kwargs(ParamValues) : \E sel \in InferChoices(kw) : Call(1, kw, sel)
    \/ CallFails(1)
    \/ \E e \in KwEntries(ParamValues) : \E sel \in InferChoices(<<e>>) :
            ParamSetItem(1, e, sel)

SpecParams == InitParams /\ [][NextParams]_vars

(***************************************************************************)
(* Specification of the parameter attributes: one tool is parameterized    *)
(* again and again, also with a value that Parameters refuses.             *)
(***************************************************************************)
AttrValues == {Literal(VStr(DemTif)), Literal(VStr(TempSdat)), Literal(VInt(0))}

\* a value that makes Parameters.__setitem__ raise
EmptyValues == {Literal(VStr(<<>>))}

InitAttrs == BuiltInit /\ ExecIdle /\ version = NoVersion

NextAttrs ==
    \/ \E kw \in Kwargs(AttrValues) : \E sel \in InferChoices(kw) : Call(1, kw, sel)
    \/ \E kw \in Kwargs1(EmptyValues) : CallRaises(1, kw)
    \/ CallFails(1)

SpecAttrs == InitAttrs /\ [][NextAttrs]_vars

(***************************************************************************)
(* Specification of the 'temp' placeholder: tools are parameterized with   *)
(* one value while time passes, a file of the user named temp.sdat appears *)
(* and the temp directory is cleaned up.                                   *)
(***************************************************************************)
TempValues ==
    {Literal(VStr(TempStem)), Literal(VStr(TempSdat)), Literal(VStr(DemTif))}

InitTemp == BuiltInit /\ ExecIdle /\ version = NoVersion

NextTemp ==
    \/ \E t \in ToolIds, kw \in Kwargs1(TempValues) : \E sel \in InferChoices(kw) :
            Call(t, kw, sel)
    \/ Tick
    \/ FsTouch(TempSdat)
    \/ TempDirCleanup

SpecTemp == InitTemp /\ [][NextTemp]_vars

(***************************************************************************)
(* Specification of the wiring of two stages: tool 1 is parameterized with *)
(* placeholders, the external program writes its files, tool 2 is          *)
(* parameterized with tool1.param.                                         *)
(***************************************************************************)
WireValues == {Literal(VStr(TempStem)), Literal(VStr(TempSdat))}

\* the files the external program may write for tool t
WireFiles(t) ==
    UNION {OutputFiles(tools[t].parameters[i].value) :
            i \in 1..Len(tools[t].parameters)}

InitWire == BuiltInit /\ ExecIdle /\ version = NoVersion

NextWire ==
    \/ \E kw \in Kwargs1(WireValues) : \E sel \in InferChoices(kw) : Call(1, kw, sel)
    \/ \E kw \in Kwargs1({FromAttr(1, p) : p \in ParamNames}) :
          \E sel \in InferChoices(kw) : Call(2, kw, sel)
    \/ \E f \in WireFiles(1) : OutputWritten(1, f)
    \/ Tick

SpecWire == InitWire /\ [][NextWire]_vars

(***************************************************************************)
(* A second SAGA object in the same process, with one Tool.                *)
(***************************************************************************)
\* SAGA(...) : __post_init__ makes the temp directory of the new object
Saga2Construct ==
    /\ ~saga2.made
    /\ saga2' = [NoSaga2 EXCEPT !.made = TRUE, !.tempDir = Mkdtemp,
                                !.owned = {Mkdtemp}]
    /\ dirs' = dirs \cup {Mkdtemp}
    /\ dirCount' = dirCount + 1
    /\ UNCHANGED execVars
    /\ UNCHANGED pipeVars
    /\ UNCHANGED <<cleaned, util>>
    /\ UNCHANGED <<sagaFlag, libs, tools, clock, tempDir, fs, subs,
                   last, flagOps, flagLast, calls>>

\* tool(**kw) on the Tool of the second object
Saga2Call(kw, sel) ==
    /\ saga2.made
    /\ \A i \in 1..Len(kw) : ~SetItemRaises(StrOf(kw[i].v))
    /\ UsesTempDir(kw) /\ saga2.tempDir \notin dirs =>
            Cardinality(saga2.owned) < MaxDirs
    /\ LET td == TempDirOf(saga2.tempDir)
           parameters == ParametersInit(kw, sel, td, clock)
       IN  IF UsesTempDir(kw)
           THEN /\ saga2' = [saga2 EXCEPT
                                !.tempDir = td,
                                !.owned = @ \cup {td},
                                !.parameters = parameters,
                                !.subs = @ \cup GeneratedPaths(kw, td, clock)]
                /\ dirs' = dirs \cup {td}
                /\ dirCount' = IF saga2.tempDir \in dirs THEN dirCount
                                                         ELSE dirCount + 1
           ELSE /\ saga2' = [saga2 EXCEPT !.parameters = parameters]
                /\ UNCHANGED <<dirs, dirCount>>
    /\ UNCHANGED execVars
    /\ UNCHANGED pipeVars
    /\ UNCHANGED <<cleaned, util>>
    /\ UNCHANGED <<sagaFlag, libs, tools, clock, tempDir, fs, subs,
                   last, flagOps, flagLast, calls>>

\* the files the external program may write for the Tool of the second object
Saga2Files ==
    UNION {OutputFiles(saga2.parameters[i].value) :
            i \in 1..Len(saga2.parameters)}

Saga2Written(f) ==
    /\ saga2.made
    /\ Cardinality(fs) < MaxFiles
    /\ f \in Saga2Files \ fs
    /\ \E d \in dirs : PathParent(f) = DirPath(d)
    /\ fs' = fs \cup {f}
    /\ UNCHANGED execVars
    /\ UNCHANGED pipeVars
    /\ UNCHANGED otherVars
    /\ UNCHANGED <<sagaFlag, libs, tools, clock, tempDir, dirs, dirCount, subs,
                   last, flagOps, flagLast, calls>>

\* temp_dir_cleanup of the second object
Saga2Cleanup ==
    /\ saga2.made
    /\ saga2.tempDir \notin dirs => Cardinality(saga2.owned) < MaxDirs
    /\ LET td == TempDirOf(saga2.tempDir)
       IN  /\ saga2' = [saga2 EXCEPT !.tempDir = td, !.owned = @ \cup {td}]
           /\ dirCount' = IF saga2.tempDir \in dirs THEN dirCount ELSE dirCount + 1
           /\ dirs' = dirs \ {td}
           /\ fs' = RmTree(td)
    /\ UNCHANGED execVars
    /\ UNCHANGED pipeVars
    /\ UNCHANGED <<cleaned, util>>
    /\ UNCHANGED <<sagaFlag, libs, tools, clock, tempDir, subs,
                   last, flagOps, flagLast, calls>>

InitTwo == BuiltInit /\ ExecIdle /\ version = NoVersion

\* tool(s='temp.sdat')
TwoKwargs == {kw \in Kwargs1({Literal(VStr(TempSdat))}) : kw[1].param = <<"s">>}

NextTwo ==
    \/ \E kw \in TwoKwargs : \E sel \in InferChoices(kw) : Call(1, kw, sel)
    \/ \E f \in WireFiles(1) : OutputWritten(1, f)
    \/ TempDirCleanup
    \/ Saga2Construct
    \/ \E kw \in TwoKwargs : \E sel \in InferChoices(kw) : Saga2Call(kw, sel)
    \/ \E f \in Saga2Files : Saga2Written(f)
    \/ Saga2Cleanup

SpecTwo == InitTwo /\ [][NextTwo]_vars

(***************************************************************************)
(* Temp substitutions, the files written for them, and temp_dir_cleanup.   *)
(***************************************************************************)
InitClean == BuiltInit /\ ExecIdle /\ version = NoVersion

NextClean ==
    \/ \E kw \in Kwargs1(WireValues) : \E sel \in InferChoices(kw) : Call(1, kw, sel)
    \/ \E f \in WireFiles(1) : OutputWritten(1, f)
    \/ Tick
    \/ TempDirCleanup

SpecClean == InitClean /\ [][NextClean]_vars

(***************************************************************************)
(* utils.check_is_file and utils.infer_file_extension, called directly.    *)
(***************************************************************************)
\* what a path may point to
StatKinds ==
    {"missing", "broken_link", "dir", "link_to_dir", "file", "link_to_file",
     "fifo", "device"}

\* Path.exists, Path.is_dir and Path.is_file follow symbolic links
Resolved(kind) ==
    CASE kind = "broken_link" -> "missing"
      [] kind = "link_to_dir" -> "dir"
      [] kind = "link_to_file" -> "file"
      [] OTHER -> kind

PathExists(kind) == Resolved(kind) # "missing"

PathIsDir(kind) == Resolved(kind) = "dir"

PathIsFile(kind) == Resolved(kind) = "file"

\* check_is_file(path) : the exception it raises, "" when it returns
CheckIsFile_NoDirCheck(kind) ==
    IF ~PathExists(kind) THEN "PathDoesNotExist"
    ELSE IF ~PathIsFile(kind) THEN "FileNotFoundError"
    ELSE ""

CheckIsFile(kind) ==
    IF ~PathExists(kind) THEN "PathDoesNotExist"
    ELSE IF PathIsDir(kind) THEN "IsADirectoryError"
    ELSE IF ~PathIsFile(kind) THEN "FileNotFoundError"
    ELSE ""

\* sys.getsizeof(file) for a Path: the size of the Path object in memory,
\* which is the same for every path and is not the size of the file
PathObjectSize == 88

GetSizeOf(file) == PathObjectSize

\* sorted(files, key=sys.getsizeof) : a stable sort, ascending
SortedInsert(sorted, file) ==
    LET k == Cardinality({i \in 1..Len(sorted) :
                            GetSizeOf(sorted[i]) <= GetSizeOf(file)})
    IN  SubSeq(sorted, 1, k) \o <<file>> \o SubSeq(sorted, k + 1, Len(sorted))

RECURSIVE Sorted(_)
Sorted(files) ==
    IF files = <<>> THEN <<>>
    ELSE SortedInsert(Sorted(SubSeq(files, 1, Len(files) - 1)), files[Len(files)])

\* infer_file_extension(path) with listing the result of path.parent.iterdir(),
\* in its order; path has no suffix, so with_suffix appends
InferFileExtension(listing, path) ==
    LET SameStem(file) == PathStem(file.path) = PathStem(path)
        files_filtered == SelectSeq(listing, SameStem)
        has_shp == \E i \in 1..Len(files_filtered) :
                      PathSuffix(files_filtered[i].path) = ShpSuffix
        has_sdat == \E i \in 1..Len(files_filtered) :
                      PathSuffix(files_filtered[i].path) = SdatSuffix
        suffix == IF files_filtered = <<>> THEN <<>>
                  ELSE IF has_shp /\ ~has_sdat THEN ShpSuffix
                  ELSE IF ~has_shp /\ has_sdat THEN SdatSuffix
                  ELSE PathSuffix(
                        Sorted(files_filtered)[Len(files_filtered)].path)
    IN  path \o suffix

\* the names of the files of the directory and their sizes in bytes
ListedNames ==
    {<<"a">>, <<"a">> \o ShpSuffix, <<"a">> \o SdatSuffix, DemTif,
     <<"b", ".", "t", "i", "f">>}

ListedFiles == [path : ListedNames, size : {1, 2}]

Listings ==
    {l \in UNION {[1..n -> ListedFiles] : n \in 0..MaxListing} :
        \A i, j \in 1..Len(l) : i # j => l[i].path # l[j].path}

InferFileExtensionCall(listing) ==
    /\ util' = [fn |-> "infer_file_extension", listing |-> listing, stat |-> "",
                result |-> InferFileExtension(listing, <<"a">>), raised |-> ""]
    /\ UNCHANGED execVars
    /\ UNCHANGED pipeVars
    /\ UNCHANGED <<cleaned, saga2>>
    /\ UNCHANGED <<sagaFlag, libs, tools, clock, tempDir, dirs, dirCount, fs, subs,
                   last, flagOps, flagLast, calls>>

CheckIsFileCall(kind) ==
    /\ util' = [fn |-> "check_is_file", listing |-> <<>>, stat |-> kind,
                result |-> <<>>, raised |-> CheckIsFile(kind)]
    /\ UNCHANGED execVars
    /\ UNCHANGED pipeVars
    /\ UNCHANGED <<cleaned, saga2>>
    /\ UNCHANGED <<sagaFlag, libs, tools, clock, tempDir, dirs, dirCount, fs, subs,
                   last, flagOps, flagLast, calls>>

InitUtils == BuiltInit /\ ExecIdle /\ version = NoVersion

\* the functions are pure: one call from the start shows every result
NextUtils ==
    \/ \E listing \in Listings : util = NoUtil /\ InferFileExtensionCall(listing)
    \/ \E kind \in StatKinds : util = NoUtil /\ CheckIsFileCall(kind)

SpecUtils == InitUtils /\ [][NextUtils]_vars

(***************************************************************************)
(* Specification of the pipelines: tools are parameterized and chained     *)
(* with |, and a pipeline is executed.                                     *)
(***************************************************************************)
PipeValues == {Literal(VInt(0))}

\* the caller is not inside Pipeline.execute
CallerFree == exe.pc = "idle"

InitPipe == BuiltInit /\ ExecIdle /\ version = NoVersion

NextPipe ==
    \/ CallerFree /\ \E t \in ToolIds, kw \in Kwargs1(PipeValues) :
                        \E sel \in InferChoices(kw) : Call(t, kw, sel)
    \/ CallerFree /\ \E t \in ToolIds : PipelineInit(t)
    \/ CallerFree /\ \E a \in ToolIds, b \in ToolIds : ToolOr(a, b)
    \/ CallerFree /\ \E p \in 1..MaxPipes, t \in ToolIds : PipelineOr(p, t)
    \/ \E p \in 1..MaxPipes : PipelineExecuteOf(p, FALSE, FALSE)
    \/ Spawn
    \/ \E k \in Stages : ChildExit(k)
    \/ Join
    \/ JoinProbes(NoFormats, NoFormats)
    \/ StdoutEof
    \/ StderrEof

SpecPipe == InitPipe /\ [][NextPipe]_vars

(***************************************************************************)
(* Specification of the | operator alone: pipelines are built and grown.   *)
(***************************************************************************)
InitChain == BuiltInit /\ ExecIdle /\ version = NoVersion

NextChain ==
    \/ \E t \in ToolIds : PipelineInit(t)
    \/ \E a \in ToolIds, b \in ToolIds : ToolOr(a, b)
    \/ \E p \in 1..MaxPipes, t \in ToolIds : PipelineOr(p, t)

SpecChain == InitChain /\ [][NextChain]_vars

(***************************************************************************)
(* Specification of a tool that is parameterized with names that are also  *)
(* attributes of the Tool class, while its flag is set and deleted.        *)
(***************************************************************************)
ClassValues == {VStr(<<"c">>), VInt(0)}

\* **kwargs : one or two entries named d, s or flag
ClassKwargs ==
    LET entries == {[param |-> p, v |-> x, ft |-> 0, fp |-> <<>>] :
                        p \in ParamNames \cup {FlagName}, x \in ClassValues}
    IN  {<<e>> : e \in entries}
            \cup {kw \in {<<e1, e2>> : e1 \in entries, e2 \in entries} :
                    kw[1].param # kw[2].param /\ kw[1].v = kw[2].v}

InitClass == BuiltInit /\ ExecIdle /\ version = NoVersion

NextClass ==
    \/ \E kw \in ClassKwargs : \E sel \in InferChoices(kw) : Call(1, kw, sel)
    \/ \E v \in {VStr(<<"c">>), VNone} : FlagSet(<<"tool", 1>>, v)
    \/ FlagDelete(<<"tool", 1>>)

SpecClass == InitClass /\ [][NextClass]_vars

(***************************************************************************)
(* Specification of one Tool.execute and its ToolOutput: the tool is       *)
(* parameterized, executed while the program writes its output files, and  *)
(* the files of the output are read; the tool may be parameterized again.  *)
(***************************************************************************)
TempShp == TempStem \o ShpSuffix

RunValues ==
    {Literal(VStr(TempSdat)), Literal(VStr(TempShp)), Literal(VStr(DirPath(1)))}

\* tool(**kwargs) : one output, or the temp directory and one output
RunKwargs ==
    Kwargs1(RunValues)
        \cup {kw \in Kwargs(RunValues) :
                /\ Len(kw) = 2
                /\ kw[1].param = <<"d">>
                /\ kw[1].v = VStr(DirPath(1))
                /\ kw[2].v # VStr(DirPath(1))}

InitRun == BuiltInit /\ ExecIdle /\ version \in Versions

NextRun ==
    \/ /\ exe.pc \in {"idle", "returned"}
       /\ \E kw \in RunKwargs : \E sel \in InferChoices(kw) : Call(1, kw, sel)
    \/ \E infer \in BOOLEAN : ToolExecute(1, FALSE, FALSE, infer)
    \/ Spawn
    \/ /\ procs[1].state = "running"
       /\ \E f \in WireFiles(1) : OutputWritten(1, f)
    \/ ChildExit(1)
    \/ Join
    \/ \E r \in {ProbeRaises, NoFormats} \cup {Formats(x) : x \in RasterListings},
          v \in {ProbeRaises, NoFormats} \cup {Formats(x) : x \in VectorListings} :
            JoinProbes(r, v)
    \/ StdoutEof
    \/ StderrEof
    \/ FilesAccess(1)

SpecRun == InitRun /\ [][NextRun]_vars

(***************************************************************************)
(* Specification of repeated executions of one tool, with and without      *)
(* verbose, whose results the history keeps.                               *)
(***************************************************************************)
InitVerbose == BuiltInit /\ ExecIdle /\ version = NoVersion

NextVerbose ==
    \/ \E verbose \in BOOLEAN, ignore \in BOOLEAN : PipelineExecute(verbose, ignore, 1)
    \/ Spawn
    \/ \E data \in OutLines : ChildWrite(1, "stdout", data)
    \/ \E data \in ErrChunks : ChildWrite(1, "stderr", data)
    \/ \E stream \in {"stdout", "stderr"} : ChildClose(1, stream)
    \/ ChildExit(1)
    \/ DynamicPrintLine
    \/ DynamicPrintBreak
    \/ Join
    \/ JoinProbes(NoFormats, NoFormats)
    \/ ReadStdout
    \/ StdoutEof
    \/ ReadStderr
    \/ StderrEof
    \/ ExecuteAgain

SpecVerbose == InitVerbose /\ [][NextVerbose]_vars

(***************************************************************************)
(* Tool.execute of a program that writes a fixed sequence of chunks to its *)
(* two pipes and exits; the pipes hold PipeCap chunks.                     *)
(***************************************************************************)
ScriptWrites ==
    [stream : {"stdout"}, data : OutLines] \cup [stream : {"stderr"}, data : ErrChunks]

Scripts == UNION {[1..n -> ScriptWrites] : n \in 0..MaxWrites}

InitBlock == BuiltInit /\ ExecIdle /\ version = NoVersion

NextBlock ==
    \/ \E verbose \in BOOLEAN, ignore \in BOOLEAN : ToolExecute(1, verbose, ignore, FALSE)
    \/ \E script \in Scripts : SpawnWith(script)
    \/ ScriptWrite(1)
    \/ ScriptExit(1)
    \/ DynamicPrintLine
    \/ DynamicPrintBreak
    \/ Join
    \/ ReadStdout
    \/ StdoutEof
    \/ ReadStderr
    \/ StderrEof

SpecBlock == InitBlock /\ [][NextBlock]_vars

(***************************************************************************)
(* Tool.execute with the tasks of its thread pool interleaved, and the     *)
(* format sets asked for directly between the executions.                  *)
(***************************************************************************)
InitPool == BuiltInit /\ ExecIdle /\ version \in Versions

NextPool ==
    \/ \E verbose \in BOOLEAN : ToolExecute(1, verbose, TRUE, TRUE)
    \/ PoolOpen
    \/ ((exe.pool.on \/ ~Probing) /\ Spawn)
    \/ \E kind \in ProbeKinds : ProbeStart(kind)
    \/ \E kind \in ProbeKinds : \E result \in ProbeResults(kind) :
            ProbeEnd(kind, result)
    \/ ChildWrite(1, "stdout", <<"5", "%", "\n">>)
    \/ ChildExit(1)
    \/ DynamicPrintLine
    \/ DynamicPrintBreak
    \/ (~exe.pool.on /\ Join)
    \/ JoinPool
    \/ ReadStdout
    \/ StdoutEof
    \/ StderrEof
    \/ ExecuteAgain
    \/ \E kind \in ProbeKinds : \E result \in ProbeResults(kind) \cup {NoFormats} :
            GetFormatsCall(kind, result)

SpecPool == InitPool /\ [][NextPool]_vars

(***************************************************************************)
(* Claims about the commands                                               *)
(***************************************************************************)
\* the flag token of a command: present only when the flag is set
FlagToken(f) == IF f.isset THEN <<FlagStr(f)>> ELSE <<>>

\* C1 (as stated): Tool.command is [program_path], then the flag token when
\* the flag is set, then library_name, then tool_name, then the formatted
\* parameters in insertion order.
C1_CommandOrder_Stated ==
    \A t \in ToolIds : tools[t].made =>
        ToolCommand(t) =
            <<ProgramPath>> \o FlagToken(tools[t].flag)
                \o <<libs[t].library, tools[t].tool>>
                \o Formatted(tools[t].parameters)

\* C1 (amended): Tool.command is [program_path], then the flag token when the
\* flag is set, then library_name, then tool_name unless the tool name is the
\* empty string, in which case no token stands for it, then the formatted
\* parameters in insertion order.
C1_CommandOrder ==
    \A t \in ToolIds : tools[t].made =>
        ToolCommand(t) =
            <<ProgramPath>> \o FlagToken(tools[t].flag)
                \o <<libs[t].library>>
                \o (IF tools[t].tool = <<>> THEN <<>> ELSE <<tools[t].tool>>)
                \o Formatted(tools[t].parameters)

\* a flagged tool without a name that was parameterized with two parameters
\* after its flag was set
C1_Witness ==
    /\ tools[1].made
    /\ tools[1].tool = <<>>
    /\ tools[1].flag.isset
    /\ flagOps = MaxFlagOps
    /\ Len(tools[1].parameters) = 2

HasEmptyToken(command) == \E i \in 1..Len(command) : command[i] = <<>>

\* C2: no command of a Program, a Library or a Tool contains an empty-string
\* token, whatever the flag, the library name, the tool name and the
\* parameters are.
C2_NoEmptyToken ==
    /\ ~HasEmptyToken(SagaCommand)
    /\ \A l \in ToolIds : libs[l].made => ~HasEmptyToken(LibraryCommand(l))
    /\ \A t \in ToolIds : tools[t].made => ~HasEmptyToken(ToolCommand(t))

(***************************************************************************)
(* Claims about the libraries and the / operator                           *)
(***************************************************************************)
\* C23 (as stated): the command of a Library is the current command of its
\* Program followed by the library name.
C23_ParentTokens ==
    \A l \in ToolIds : libs[l].made =>
        LibraryCommand(l) = SagaCommand \o <<libs[l].library>>

\* C23 (amended): the command of a Library is the program path, then the
\* token of the Library's own flag when that flag is set, then the library
\* name unless the name is the empty string.
C23_OwnFlag ==
    \A l \in ToolIds : libs[l].made =>
        LibraryCommand(l) =
            <<ProgramPath>> \o FlagToken(libs[l].flag)
                \o (IF libs[l].library = <<>> THEN <<>> ELSE <<libs[l].library>>)

\* the flag of the Program was set after the Library was built
C23_Witness ==
    /\ libs[1].made
    /\ libs[1].library # <<>>
    /\ sagaFlag.isset
    /\ ~libs[1].flag.isset
    /\ flagLast.op = "set"
    /\ flagLast.target = <<"saga", 0>>

C13_DeleteUnsetRaises ==
    (flagLast.op = "delete" /\ ~flagLast.wasSet) => flagLast.raised

\* the string a flag is normalized to, written out
C14_Normalized(s) ==
    IF Len(s) >= 2 /\ s[1] = "-" /\ s[2] = "-" THEN s ELSE <<"-", "-">> \o s

\* the command of a target without a flag token, up to its second token
C14_NoToken(target, command) ==
    CASE target[1] = "saga" -> Len(command) = 1
      [] target[1] = "library" ->
            IF libs[target[2]].library = <<>> THEN Len(command) = 1
            ELSE command[2] = libs[target[2]].library
      [] OTHER -> command[2] = libs[target[2]].library

\* C14: after the flag of a target was set to a string s, the second token of
\* its command is s when s starts with "--" and "--" + s otherwise, and the
\* flag compares equal to that string; after it was set to None or deleted,
\* the flag is false and the second token is the next element of the command.
C14_FlagToken ==
    LET target == flagLast.target
        command == TargetCommand(target)
    IN  /\ (flagLast.op = "set" /\ flagLast.given.k = "str") =>
              /\ command[1] = ProgramPath
              /\ command[2] = C14_Normalized(flagLast.given.s)
              /\ FlagEq(TargetFlag(target), C14_Normalized(flagLast.given.s))
        /\ (flagLast.op = "delete" \/ (flagLast.op = "set" /\ flagLast.given = VNone)) =>
              /\ command[1] = ProgramPath
              /\ ~FlagBool(TargetFlag(target))
              /\ C14_NoToken(target, command)

\* the flag of a parameterized tool was set to 'c', after the flag 'c' of
\* another target was removed
C14_Witness ==
    /\ flagLast.op = "set"
    /\ flagLast.target = <<"tool", 1>>
    /\ flagLast.given = VStr(<<"c">>)
    /\ flagOps = 2
    /\ ~sagaFlag.isset
    /\ Len(tools[1].parameters) = 1
    /\ ToolCommand(1)[2] = <<"-", "-", "c">>

\* C15: a library is made with the flag its program has then, a tool with the
\* flag its library has then; a set or a delete of the flag of one target
\* changes neither the flag nor the command of any other target.
C15_FlagInherited ==
    [][ /\ \A l \in ToolIds :
              (~libs[l].made /\ libs'[l].made) => libs'[l].flag = sagaFlag
        /\ \A t \in ToolIds :
              (~tools[t].made /\ tools'[t].made) => tools'[t].flag = libs[t].flag
        /\ flagOps' # flagOps =>
              \A other \in Targets \ {flagLast'.target} :
                  TargetMade(other) =>
                      /\ TargetFlag(other)' = TargetFlag(other)
                      /\ TargetCommand(other)' = TargetCommand(other)
      ]_vars

\* the program's flag was deleted after a library and a tool had taken it
C15_Witness ==
    /\ flagLast.op = "delete"
    /\ flagLast.target = <<"saga", 0>>
    /\ ~sagaFlag.isset
    /\ libs[1].made /\ libs[1].flag = MkFlag(<<"c">>)
    /\ tools[1].made /\ tools[1].flag = MkFlag(<<"c">>)
    /\ ToolCommand(1)[2] = <<"-", "-", "c">>

(***************************************************************************)
(* Claims about the parameters                                             *)
(***************************************************************************)
\* the upper-case form of a parameter name, written out
C7_Upper(p) == IF p = <<"d">> THEN <<"D">> ELSE <<"S">>

\* the string of a keyword-argument value, written out
C7_Str(v) ==
    IF v = VInt(0) THEN <<"0">>
    ELSE IF v = VNone THEN <<"N", "o", "n", "e">>
    ELSE v.s

C7_Keys(parameters) == [i \in 1..Len(parameters) |-> parameters[i].param]

\* C7: every stored parameter value is the string of what was given (or the
\* path generated for a placeholder); formatted has one token per stored
\* parameter, "-" + upper-case name + "=" + value, in insertion order: the
\* order of the keyword arguments after a call, and after a write to
\* tool.parameters the old order with a new name added last.
C7_Formatted ==
    \A t \in ToolIds :
        LET ps == tools[t].parameters
            tokens == Formatted(ps)
        IN  /\ Len(tokens) = Len(ps)
            /\ \A i \in 1..Len(ps) :
                  tokens[i] = <<"-">> \o C7_Upper(ps[i].param) \o <<"=">> \o ps[i].value
            /\ last.t = t =>
                  /\ \A i \in 1..Len(last.items) :
                        LET it == last.items[i]
                        IN  \E j \in 1..Len(ps) :
                              /\ ps[j].param = it.param
                              /\ DOMAIN ps[j].value = 1..Len(ps[j].value)
                              /\ it.raw = C7_Str(it.v)
                              /\ PathStem(it.raw) # TempStem => ps[j].value = C7_Str(it.v)
                  /\ last.op = "call" =>
                        C7_Keys(ps) = [i \in 1..Len(last.items) |-> last.items[i].param]
                  /\ last.op = "setitem" =>
                        C7_Keys(ps) =
                            IF \E i \in 1..Len(last.before) :
                                    last.before[i].param = last.items[1].param
                            THEN C7_Keys(last.before)
                            ELSE Append(C7_Keys(last.before), last.items[1].param)

\* a call stored 's' before 'd', an integer among the values, and a write to
\* tool.parameters then replaced the value of 's' in place
C7_Witness ==
    /\ last.t = 1
    /\ last.op = "setitem"
    /\ last.items[1].param = <<"s">>
    /\ last.items[1].v = VInt(0)
    /\ Len(last.before) = 2
    /\ last.before[1].param = <<"s">>
    /\ last.before[1].value = DemTif
    /\ Formatted(tools[1].parameters)
          = << <<"-", "S", "=", "0">>, <<"-", "D", "=", "N", "o", "n", "e">> >>

(***************************************************************************)
(* Claims about the 'temp' placeholder                                     *)
(***************************************************************************)
\* the suffix of a given value, written out
C8_Suffix(raw) == IF raw = TempStem THEN <<>> ELSE SubSeq(raw, Len(raw) - 4, Len(raw))

\* C8: a value whose stem is 'temp' and that does not exist as given is
\* stored as {tempdir}/{param}_{unix}{suffix}, in the temp directory, which
\* exists then; a value with another stem and a suffix is stored unchanged.
C8_TempPath ==
    \A i \in 1..Len(last.items) :
        LET it == last.items[i]
        IN  /\ (it.raw \in {TempStem, TempSdat} /\ ~it.existed) =>
                  /\ it.stored = DirPath(last.tdir) \o <<"/">> \o it.param \o <<"_">>
                                    \o <<Digit(last.unix)>> \o C8_Suffix(it.raw)
                  /\ last.tdirExists
            /\ it.raw = DemTif => it.stored = DemTif

\* 'temp.sdat' was replaced in the second 1, in a temp directory that was
\* made anew after a cleanup
C8_Witness ==
    /\ last.op = "call"
    /\ last.items[1].raw = TempSdat
    /\ ~last.items[1].existed
    /\ last.unix = 1
    /\ last.tdir = 2
    /\ last.items[1].stored
          = <<"/", "t", "2", "/">> \o last.items[1].param \o <<"_", "1">> \o SdatSuffix

\* C9: no path generated for a placeholder was generated twice.
C9_TempUnique == \A path \in BagToSet(subs) : CopiesIn(path, subs) = 1

(***************************************************************************)
(* Claims about the wiring of two stages                                   *)
(***************************************************************************)
\* C10, as stated: tool 2 parameterized with tool1.param stores exactly the
\* value that tool 1 holds for param.
C10_WireExact ==
    last.t = 2 =>
        \A i \in 1..Len(last.items) :
            LET it == last.items[i]
            IN  (it.ft = 1 /\ tools[1].attrs[it.fp].has) =>
                    it.stored = tools[1].attrs[it.fp].v

\* C10, amended: tool 2 parameterized with tool1.param stores exactly the
\* value that tool 1 holds for param, unless that value has no suffix and
\* exists as a file: then it stores the value with the suffix of a file of
\* the same directory and stem.
C10_Wire ==
    last.t = 2 =>
        \A i \in 1..Len(last.items) :
            LET it == last.items[i]
                held == tools[1].attrs[it.fp].v
            IN  (it.ft = 1 /\ tools[1].attrs[it.fp].has) =>
                    IF it.existed /\ C8_Suffix(held) # SdatSuffix
                    THEN \E f \in fs :
                            /\ f \in {held, held \o SdatSuffix}
                            /\ it.stored = f
                    ELSE it.stored = held

\* tool 2 took under another name the path that tool 1 generated for
\* 'temp.sdat', after the file was written
C10_Witness ==
    /\ last.t = 2
    /\ last.items[1].ft = 1
    /\ last.items[1].fp # last.items[1].param
    /\ last.items[1].existed
    /\ tools[1].attrs[last.items[1].fp].has
    /\ C8_Suffix(tools[1].attrs[last.items[1].fp].v) = SdatSuffix
    /\ tools[2].parameters[1].value = tools[1].attrs[last.items[1].fp].v

\* C11: the parameters of a tool have the names of the most recent keyword
\* arguments, each parameter reads as an attribute equal to its stored
\* value, and no name that is not a parameter now reads as an attribute.
C11_AttrsFollowParameters ==
    \A t \in ToolIds :
        LET ps == tools[t].parameters
        IN  /\ (last.t = t /\ last.op = "call" /\ last.items # <<>>) =>
                  C7_Keys(ps) = [i \in 1..Len(last.items) |-> last.items[i].param]
            /\ \A i \in 1..Len(ps) :
                  /\ tools[t].attrs[ps[i].param].has
                  /\ tools[t].attrs[ps[i].param].v = ps[i].value
            /\ \A p \in ParamNames :
                  (\A i \in 1..Len(ps) : ps[i].param # p) => ~tools[t].attrs[p].has

\* the tokens of Tool.command up to the tool name
CommandHead(t) ==
    CommandInit(<<ArgSagaCmd(ProgramPath), ArgFlag(tools[t].flag),
                  ArgLibrary(libs[t]), ArgStr(tools[t].tool)>>)

\* C29: a step that parameterizes a tool leaves the name of the tool, its
\* flag and the tokens of its command up to the tool name as they were.
C29_CallFrame ==
    [][\A t \in ToolIds :
          tools'[t].parameters # tools[t].parameters =>
              /\ tools'[t].tool = tools[t].tool
              /\ tools'[t].flag = tools[t].flag
              /\ CommandHead(t)' = CommandHead(t)]_vars

\* C12: no parameter of a tool was given the value read from an attribute
\* that names a parameter not set on the tool read from: such a read fails.
C12_UnsetAttrFails ==
    \A i \in 1..Len(last.items) :
        ~(/\ last.items[i].ft # 0
          /\ last.items[i].v = VNone
          /\ last.items[i].stored = <<"N", "o", "n", "e">>)

(***************************************************************************)
(* Claims about the execution                                              *)
(***************************************************************************)
Spawned(k) == procs[k].state # "none"

Drained(k) ==
    /\ procs[k].outBuf = <<>> /\ ~procs[k].outOpen
    /\ procs[k].errBuf = <<>> /\ ~procs[k].errOpen

\* the stderr text of stage k is more than whitespace
NonBlank(k) == Strip(procs[k].wroteErr) # <<>>

\* C18: a pipeline is never empty; tool_a | tool_b returns a new pipeline
\* that is [tool_a, tool_b]; pipeline | tool returns the same pipeline, with
\* the tool added after the tools it had.
C18_PipelineOrder ==
    /\ \A p \in 1..Len(pipes) : Len(pipes[p].tools) >= 1
    /\ pipeRet.op = "init" =>
          pipeRet.ret = Len(pipes) /\ pipes[pipeRet.ret].tools = <<pipeRet.tool>>
    /\ pipeRet.op = "tool_or" =>
          /\ pipeRet.ret = Len(pipes)
          /\ pipes[pipeRet.ret].tools = <<pipeRet.left, pipeRet.tool>>
    /\ pipeRet.op = "pipe_or" =>
          /\ pipeRet.ret = pipeRet.left
          /\ pipes[pipeRet.ret].tools = pipeRet.before \o <<pipeRet.tool>>
          /\ Len(pipes[pipeRet.ret].tools) = Len(pipeRet.before) + 1

\* tool 1 was appended to the pipeline [1, 2]
C18_Witness ==
    /\ pipeRet.op = "pipe_or"
    /\ pipeRet.before = <<1, 2>>
    /\ pipes[pipeRet.ret].tools = <<1, 2, 1>>

MapItems(map) == {<<map[j].param, map[j].path>> : j \in 1..Len(map)}

\* the (parameter, value) pairs of parameters whose value is one of files
FileItems(parameters, files) ==
    {<<parameters[j].param, parameters[j].value>> :
        j \in {n \in 1..Len(parameters) : parameters[n].value \in files}}

\* C16: the files of a ToolOutput are exactly the parameters of its tool
\* whose stored value was an existing regular file when files was first
\* read; a parameter whose value is a directory, a path that does not exist
\* or not a path is absent.
C16_FilesExact ==
    \A i \in 1..Len(outs) :
        LET o == outs[i].outputs
        IN  o.isset =>
              /\ MapItems(o.map) = FileItems(o.parameters, o.files)
              /\ Len(o.map) = Cardinality(MapItems(o.map))

\* the tool ran with d = the temp directory and s = a file that the program
\* wrote: files holds s and not d
C16_Witness ==
    /\ Len(outs) = 1
    /\ outs[1].outputs.isset
    /\ Len(outs[1].outputs.parameters) = 2
    /\ outs[1].outputs.parameters[1].value = DirPath(1)
    /\ 1 \in dirs
    /\ Len(outs[1].outputs.map) = 1
    /\ outs[1].outputs.map[1].param = <<"s">>
    /\ outs[1].outputs.map[1].path \in fs

\* C17: the files of a ToolOutput are those of the parameters that its
\* invocation ran with, whether or not the tool was parameterized again
\* before files was first read.
C17_BoundToInvocation ==
    \A i \in 1..Len(outs) :
        LET o == outs[i].outputs
        IN  o.isset => MapItems(o.map) = FileItems(outs[i].bound, o.files)

\* C20 as stated: with an unknown version or a major version below 4 the
\* format sets are empty or unknown and every file of every ToolOutput is
\* generic.
C20_AllGeneric ==
    ~ProbeRuns =>
        /\ ~FormatsTruthy(rasterFormats)
        /\ ~FormatsTruthy(vectorFormats)
        /\ \A i \in 1..Len(outs) : \A j \in 1..Len(outs[i].outputs.map) :
              outs[i].outputs.map[j].object = "Path"

\* C20 amended: with an unknown version or a major version below 4 the
\* vector formats stay unknown and the raster formats are, from the first
\* execution that infers object types on, exactly the three native grid
\* extensions; a file is a Raster when it has one of them and the raster
\* formats were known when files was first read, and no file is a Vector.
C20_NativeRasters ==
    ~ProbeRuns =>
        /\ vectorFormats = NoFormats
        /\ rasterFormats \in {NoFormats, Formats(SagaRasterExts)}
        /\ (exe.infer /\ exe.pc \in {"rd_out", "rd_err", "returned"})
              => rasterFormats = Formats(SagaRasterExts)
        /\ \A i \in 1..Len(outs) : FilesOfClass(outs[i].outputs, "Vector") = <<>>
        /\ \A i \in 1..Len(outs) : \A j \in 1..Len(outs[i].outputs.map) :
              LET entry == outs[i].outputs.map[j]
              IN  entry.object = "Raster" <=>
                        /\ outs[i].outputs.rset
                        /\ StripDots(PathSuffix(entry.path)) \in SagaRasterExts

\* with major version 3 an output file named .sdat is reported as a Raster
C20_Witness ==
    /\ version.known /\ version.major = 3
    /\ Len(outs) = 1
    /\ outs[1].outputs.isset
    /\ \E j \in 1..Len(outs[1].outputs.map) :
          /\ outs[1].outputs.map[j].object = "Raster"
          /\ PathSuffix(outs[1].outputs.map[j].path) = SdatSuffix

\* C3: when stage N+1 of a pipeline has been spawned, the process of stage N
\* has exited and both of its output streams were read to their end.
C3_StageOrder ==
    \A k \in Stages :
        (k + 1 \in Stages /\ Spawned(k + 1)) =>
            procs[k].state = "exited" /\ Drained(k)

\* C4, as stated: with ignore_stderr=False, once stage k's process wrote any
\* text to stderr no later stage is spawned, no list is returned, and the
\* error that is raised is the one of stage k.
C4_ErrorStops_Stated ==
    ~exe.ignore =>
        \A k \in Stages :
            procs[k].wroteErr # <<>> =>
                /\ \A j \in Stages : j > k => ~Spawned(j)
                /\ exe.pc # "returned"
                /\ exe.pc = "raised" => err.raised /\ err.by = k
                /\ k \in exe.built => exe.pc = "raised"

\* C4, amended: with ignore_stderr=False, once stage k's process wrote to
\* stderr text that is more than whitespace, no later stage is spawned and no
\* list is returned; when the result of stage k is built the error of stage k
\* is raised, and an error raised before that is the one of a format probe.
C4_ErrorStops ==
    ~exe.ignore =>
        \A k \in Stages :
            NonBlank(k) =>
                /\ \A j \in Stages : j > k => ~Spawned(j)
                /\ exe.pc # "returned"
                /\ exe.pc = "raised" => err.raised /\ err.by \in {0, k}
                /\ k \in exe.built => exe.pc = "raised" /\ err.by = k

\* stage 1 of a pipeline of two wrote an error text and the run has stopped
C4_Witness ==
    /\ exe.pc = "raised"
    /\ exe.n = 2
    /\ ~exe.ignore
    /\ err.by = 1
    /\ procs[1].wroteErr = <<"E", "\n">>
    /\ ~Spawned(2)
    /\ outs = <<>>

\* C5: two executions of the same tool whose processes wrote the same text,
\* one verbose and one not, give the same stdout, the same stderr and the
\* same outcome.
C5_VerboseSameResult ==
    \A a \in history, b \in history :
        (a.ignore = b.ignore /\ a.wroteOut = b.wroteOut /\ a.wroteErr = b.wroteErr)
            => (a.stdout = b.stdout /\ a.stderr = b.stderr /\ a.outcome = b.outcome)

GeneratedFiles == UNION {OutputFiles(path) : path \in BagToSet(subs)}

\* the paths that this step generates
NewlyGenerated == {path \in BagToSet(subs') : CopiesIn(path, subs') > CopiesIn(path, subs)}

C27_CleanupAndCreate ==
    [][/\ tempDir' \notin dirs' => GeneratedFiles \cap fs' = {}
       /\ \A path \in NewlyGenerated :
             /\ PathParent(path) = DirPath(tempDir')
             /\ tempDir' \in dirs']_vars

C27_Witness ==
    /\ cleaned # {}
    /\ tempDir \in dirs
    /\ dirCount > 1
    /\ GeneratedFiles \cap fs # {}

(***************************************************************************)
(* C28: two SAGA objects have different temp directories, a path generated *)
(* through a Tool of one lies in the directory of that one and in no       *)
(* directory that the other ever had, and temp_dir_cleanup of one leaves   *)
(* the directory and the files of the other as they were.                  *)
(***************************************************************************)
\* the directory d and the files in it are the same before and after the step
DirUntouched(d) ==
    /\ d \in dirs <=> d \in dirs'
    /\ TempFiles(d) = {f \in fs' : PathParent(f) = DirPath(d)}

C28_Independent ==
    [][saga2'.made =>
        /\ saga2'.tempDir # tempDir'
        /\ \A path \in NewlyGenerated :
              /\ PathParent(path) = DirPath(tempDir')
              /\ tempDir' \notin saga2'.owned
        /\ \A path \in saga2'.subs \ saga2.subs :
              /\ PathParent(path) = DirPath(saga2'.tempDir)
              /\ saga2'.tempDir \in saga2'.owned
        /\ saga2.made /\ TempDirCleanup => DirUntouched(saga2.tempDir)
        /\ saga2.made /\ Saga2Cleanup => DirUntouched(tempDir)]_vars

C28_Witness ==
    /\ saga2.made
    /\ cleaned # {}
    /\ tempDir \notin dirs
    /\ saga2.tempDir \in dirs
    /\ saga2.subs \cap fs # {}

(***************************************************************************)
(* C22: infer_file_extension over the files that share the stem of the     *)
(* path gives the one of .shp and .sdat that is there when exactly one of  *)
(* them is, the suffix of the file with the most bytes when both or        *)
(* neither is, and no suffix when no file shares the stem.                 *)
(***************************************************************************)
C22_LargestSibling ==
    util.fn = "infer_file_extension" =>
        LET listing == util.listing
            siblings == {i \in 1..Len(listing) : PathStem(listing[i].path) = <<"a">>}
            Has(sfx) == \E i \in siblings : PathSuffix(listing[i].path) = sfx
            suffix == PathSuffix(util.result)
        IN  /\ siblings = {} => suffix = <<>>
            /\ Has(ShpSuffix) /\ ~Has(SdatSuffix) => suffix = ShpSuffix
            /\ ~Has(ShpSuffix) /\ Has(SdatSuffix) => suffix = SdatSuffix
            /\ siblings # {} /\ (Has(ShpSuffix) <=> Has(SdatSuffix)) =>
                  \E i \in siblings :
                      /\ suffix = PathSuffix(listing[i].path)
                      /\ \A j \in siblings : listing[j].size <= listing[i].size

(***************************************************************************)
(* C25: check_is_file raises PathDoesNotExist for a path that does not     *)
(* exist, IsADirectoryError for a directory, FileNotFoundError for what    *)
(* exists and is neither a directory nor a regular file, and returns       *)
(* exactly for an existing regular file.                                   *)
(***************************************************************************)
C25_CheckIsFile ==
    util.fn = "check_is_file" =>
        /\ util.stat \in {"missing", "broken_link"} <=> util.raised = "PathDoesNotExist"
        /\ util.stat \in {"dir", "link_to_dir"} <=> util.raised = "IsADirectoryError"
        /\ util.stat \in {"fifo", "device"} <=> util.raised = "FileNotFoundError"
        /\ util.stat \in {"file", "link_to_file"} <=> util.raised = ""

C25_Witness ==
    /\ util.fn = "check_is_file"
    /\ util.stat = "dir"
    /\ util.raised = "IsADirectoryError"

(***************************************************************************)
(* C30: with pipes of bounded capacity and a child that exits once all it  *)
(* writes is read, there is no state in which Tool.execute waits to read   *)
(* one stream while the child waits to write to the other.                 *)
(***************************************************************************)
\* the parent waits in a read of the stream, which has nothing to give yet
ParentBlockedOn(stream) ==
    IF stream = "stdout"
    THEN /\ exe.pc \in {"dprint", "rd_out"}
         /\ procs[exe.k].outBuf = <<>>
         /\ procs[exe.k].outOpen
    ELSE /\ exe.pc = "rd_err"
         /\ procs[exe.k].errBuf = <<>>
         /\ procs[exe.k].errOpen

\* the child waits in a write to the stream, whose pipe is full
ChildBlockedOn(stream) ==
    /\ exe.k \in Stages
    /\ procs[exe.k].state = "running"
    /\ procs[exe.k].script # <<>>
    /\ Head(procs[exe.k].script).stream = stream
    /\ PipeFull(exe.k, stream)

C30_NoCrossBlock ==
    /\ ~(ParentBlockedOn("stdout") /\ ChildBlockedOn("stderr"))
    /\ ~(ParentBlockedOn("stderr") /\ ChildBlockedOn("stdout"))

(***************************************************************************)
(* C21: the format listing tool is spawned at most once for the raster set *)
(* and at most once for the vector set, and a stored set never changes.    *)
(***************************************************************************)
\* a stored format set is the same after the step
StoredKept ==
    /\ rasterFormats.isset => rasterFormats' = rasterFormats
    /\ vectorFormats.isset => vectorFormats' = vectorFormats

C21_SpawnedOnce ==
    [][/\ StoredKept
       /\ \A kind \in ProbeKinds : exe'.spawned[kind] <= 1]_vars

\* C21, amended: a stored format set never changes and the listing tool is
\* never spawned for a set that is stored; a spawn whose probe does not
\* raise stores the set, so at most one spawn for each set ends without an
\* error; with an unknown version or one below 4 the tool is never spawned.
C21_WriteOnce ==
    [][/\ StoredKept
       /\ \A kind \in ProbeKinds :
            /\ FormatsOf(kind).isset => exe'.spawned[kind] = exe.spawned[kind]
            /\ ~ProbeRuns => exe'.spawned[kind] = 0
            /\ exe.pool.on /\ exe.pool[kind] = "running"
                    /\ exe'.pool[kind] = "done" =>
                        IF kind = "raster" THEN rasterFormats'.isset
                                           ELSE vectorFormats'.isset]_vars

C21_Witness ==
    /\ exe.pc = "returned"
    /\ exe.runs = 1
    /\ exe.spawned = [raster |-> 2, vector |-> 1]
    /\ rasterFormats.isset
    /\ vectorFormats.isset

(***************************************************************************)
(* C26: on an execution that probes, the two probes and the invocation run *)
(* as three tasks in any interleaving; Tool.execute goes on only when all  *)
(* three have finished, its output is the result of the invocation, and    *)
(* the process was spawned with the command of the tool, which the probes  *)
(* leave as it was.                                                        *)
(***************************************************************************)
C26_JoinsAll ==
    exe.pool.on /\ exe.pc \in {"rd_out", "rd_err", "returned", "raised"} =>
        /\ \A kind \in ProbeKinds : exe.pool[kind] \in {"done", "raised"}
        /\ Len(exe.pool.finished) \in {2, 3}
        /\ procs[exe.k].state # "none"
        /\ procs[exe.k].args = ToolCommand(exe.tools[exe.k])
        /\ exe.pc # "raised" =>
              /\ exe.output = "command"
              /\ \A kind \in ProbeKinds : exe.pool[kind] = "done"

C26_Witness ==
    /\ exe.pool.on
    /\ exe.pc = "returned"
    /\ exe.spawned = [raster |-> 1, vector |-> 1]
    /\ Len(exe.pool.finished) = 3
    /\ exe.pool.finished[1] = "command"
    /\ exe.pool.finished[3] = "raster"
    /\ Len(outs) = 1

====
